---- MODULE Spec2Model ----
(***************************************************************************)
(* Model of preencher_planilha.py and app.py.                              *)
(*                                                                         *)
(* Text is a sequence of tokens.  A token is one character ("a", " ",      *)
(* "-", "7", ...) or one label word of the fixed vocabulary the regular    *)
(* expressions of the source recognise ("META ESPECIFICA", "Item",         *)
(* "Valor Total:", ...).  Accented letters of the source are written       *)
(* without the accent; the en dash and the em dash are the tokens          *)
(* "EN_DASH" and "EM_DASH".  A line is a text; the input is a sequence of  *)
(* lines.  None is the empty sequence where the value is a text and        *)
(* NoneInt where it is a number.                                           *)
(***************************************************************************)
EXTENDS Integers, Sequences, FiniteSets, TLC

VARIABLES
    template,         \* the template workbook file, as openpyxl loads it
    lines,            \* the input line sequence (extract_lines_from_pdf*)
    pc,               \* position of the run in the pipeline
    idx,              \* index of the next line / item the running loop reads
    current_meta,     \* parse_items
    current_item,     \* parse_items
    current_status,   \* parse_items
    current_lines,    \* parse_items
    items,            \* parse_items: the emitted items
    header_map,       \* header key -> column, read from the template's header row
    fields,           \* build_rows: the fields of the item being converted
    rows,             \* build_rows: one record per item
    analysis_data,    \* extract_analysis_data: the three document-level texts
    current,          \* extract_meta_especifica_sections: <<>> or <<open section>>
    current_field,    \* extract_meta_especifica_sections: "" is None
    sections,         \* extract_meta_especifica_sections: the finalized sections
    currency_in,      \* format_currency: the argument of the first call
    formatted,        \* format_currency: the results of the calls made so far
    ws,               \* the worksheet generate_excel_bytes loads and fills
    original_ranges,  \* _insert_rows_preserving_merges: the ranges, in iteration order
    rebuilt,          \* _insert_rows_preserving_merges: the ranges merged again
    insert_at,        \* _ensure_analysis_blocks / _insert_rows_preserving_merges
    rows_to_insert,   \* _ensure_analysis_blocks: the amount of rows inserted
    art_num_preferred,\* app: resolve_art_by_plan_rule of the plan signature (<<>> is None)
    header_row,       \* app: header row of the item table of the template (0 is None)
    excel_header_row, \* generate_excel_bytes: header row of the filled sheet (0 is None)
    missing_cells,    \* app: the positions <<row, column>> reported as blank
    signature,        \* extract_plan_signature(lines): sigla "" and ano 0 are None
    surface,          \* "app": the Processar handler of app.py; "cli": main()
    files,            \* the PDF ("absent", "corrupt", "ok") and the template ("absent", "ok")
    source,           \* the lines extract_lines_from_pdf* reads from the PDF
    exit_code,        \* cli: exit status of the process (NoneInt while it runs)
    messages,         \* what the run has shown or printed so far
    result,           \* app: st.session_state.result ("" is None, else its mode)
    saved             \* the workbook wb.save wrote (<<>> if none)

itemVars == <<current_meta, current_item, current_status, current_lines, items>>
rowVars == <<fields, rows>>
secVars == <<analysis_data, current, current_field, sections>>
curVars == <<currency_in, formatted>>
insertVars == <<original_ranges, rebuilt, insert_at, rows_to_insert>>
sheetVars == <<ws, insertVars>>
runVars == <<surface, files, source, exit_code, messages, result, saved>>
appVars == <<art_num_preferred, header_row, excel_header_row, missing_cells, signature, runVars>>
vars == <<template, lines, pc, idx, itemVars, header_map, rowVars, secVars, curVars, sheetVars, appVars>>

-----------------------------------------------------------------------------
(* Bounds of the model *)

MaxLines == 4
\* Rows of the sheets _insert_rows_preserving_merges is called on directly
GridRows == 4
\* Number of merged ranges of those sheets
MaxRanges == 2

-----------------------------------------------------------------------------
(* Characters and generic text functions *)

NoneInt == -1

Ws == {" ", "\t", "\n"}
Dashes == {"-", "EN_DASH", "EM_DASH"}
Digits == {"0", "1", "2", "3", "4", "5", "6", "7", "8", "9"}

DigitVal(d) ==
    CASE d = "0" -> 0 [] d = "1" -> 1 [] d = "2" -> 2 [] d = "3" -> 3
      [] d = "4" -> 4 [] d = "5" -> 5 [] d = "6" -> 6 [] d = "7" -> 7
      [] d = "8" -> 8 [] d = "9" -> 9

SeqsUpTo(S, n) == UNION {[1..k -> S] : k \in 0..n}

RECURSIVE SkipWhile(_, _, _)
\* Index of the first token of s at or after i that is not in S (Len(s)+1 if none).
SkipWhile(s, i, S) ==
    IF i <= Len(s) /\ s[i] \in S THEN SkipWhile(s, i + 1, S) ELSE i

RECURSIVE ToInt(_)
ToInt(ds) ==
    IF ds = <<>> THEN 0
    ELSE 10 * ToInt(SubSeq(ds, 1, Len(ds) - 1)) + DigitVal(ds[Len(ds)])

RECURSIVE LStrip(_)
LStrip(s) == IF s /= <<>> /\ Head(s) \in Ws THEN LStrip(Tail(s)) ELSE s

RECURSIVE RStrip(_)
RStrip(s) ==
    IF s /= <<>> /\ s[Len(s)] \in Ws THEN RStrip(SubSeq(s, 1, Len(s) - 1)) ELSE s

\* str.strip()
Strip(s) == RStrip(LStrip(s))

RECURSIVE CollapseWs(_)
\* re.sub(r"\s+", " ", text)
CollapseWs(s) ==
    IF s = <<>> THEN <<>>
    ELSE IF Head(s) \in Ws
         THEN <<" ">> \o CollapseWs(LStrip(s))
         ELSE <<Head(s)>> \o CollapseWs(Tail(s))

normalize(text) == Strip(CollapseWs(text))

IsDashRun(text) == text /= <<>> /\ \A i \in 1..Len(text) : text[i] \in Dashes

\* A variant that knows the hyphen only
blank_if_hyphen_only(value) ==
    LET text == normalize(value)
    IN  IF text /= <<>> /\ \A i \in 1..Len(text) : text[i] = "-" THEN <<>> ELSE text

blank_if_dash_only(value) ==
    LET text == normalize(value)
    IN  IF IsDashRun(text) THEN <<>> ELSE text

RECURSIVE JoinSpace(_)
\* " ".join(parts)
JoinSpace(parts) ==
    IF parts = <<>> THEN <<>>
    ELSE IF Len(parts) = 1 THEN parts[1]
    ELSE parts[1] \o <<" ">> \o JoinSpace(Tail(parts))

-----------------------------------------------------------------------------
(* The worksheet (openpyxl), as far as the program uses it.                *)
(*                                                                         *)
(* A range is <<min_row, min_col, max_row, max_col>>.  A worksheet is a    *)
(* record: ranges is ws.merged_cells.ranges; mcells is the set of          *)
(* positions <<row, col>> that hold a MergedCell; cells maps the position  *)
(* of every other existing cell to its value (<<>> is None or ""); error   *)
(* is the exception a call raised ("" if none).  A call on a worksheet     *)
(* whose error is set does nothing: the exception has ended the run.       *)

ACTION_HEADER_KEY == "acao_art"
ACTION_HEADER_NUM_KEY == "acao_art_num"

ANALYSIS_BLOCK_START_ROW == 14
ANALYSIS_BLOCK_HEIGHT == 11
ANALYSIS_BLOCK_START_COL == 1
ANALYSIS_BLOCK_END_COL == 10

Max(a, b) == IF a >= b THEN a ELSE b
MaxOf(S) == CHOOSE x \in S : \A y \in S : y <= x

CellsOf(rng) == {<<r, c>> : r \in rng[1]..rng[3], c \in rng[2]..rng[4]}
TopLeft(rng) == <<rng[1], rng[2]>>
\* CellRange.issubset
IsSubrange(a, b) == a[1] >= b[1] /\ a[2] >= b[2] /\ a[3] <= b[3] /\ a[4] <= b[4]

\* Every ordering of a finite set
Orders(S) == {f \in [1..Cardinality(S) -> S] : \A i, j \in DOMAIN f : i /= j => f[i] /= f[j]}
\* One ordering of a finite set
RECURSIVE SomeOrder(_)
SomeOrder(S) == IF S = {} THEN <<>> ELSE LET x == CHOOSE y \in S : TRUE
                                         IN  <<x>> \o SomeOrder(S \ {x})

Exists(w, pos) == pos \in w.mcells \/ pos \in DOMAIN w.cells
\* The function f without the positions of D
Without(f, D) == [pos \in (DOMAIN f) \ D |-> f[pos]]

Raise(w, exc) == [w EXCEPT !.error = exc]

\* ws.cell(row, col) for every position of P: a cell that does not exist is created
Touch(w, P) ==
    IF w.error /= "" THEN w
    ELSE [w EXCEPT !.cells = [pos \in (DOMAIN w.cells) \cup (P \ w.mcells) |->
                                 IF pos \in DOMAIN w.cells THEN w.cells[pos] ELSE <<>>]]

\* ws.cell(row, col).value, None for a MergedCell and for a cell never written
ValueOf(w, pos) == IF pos \in DOMAIN w.cells THEN w.cells[pos] ELSE <<>>

\* cell.value = v: a MergedCell's value is read-only
SetValue(w, pos, v) ==
    IF w.error /= "" THEN w
    ELSE IF pos \in w.mcells THEN Raise(w, "AttributeError")
    ELSE [w EXCEPT !.cells = [q \in (DOMAIN w.cells) \cup {pos} |->
                                 IF q = pos THEN v ELSE w.cells[q]]]

\* cell.value = vals[pos] for every position of DOMAIN vals
SetValues(w, vals) ==
    IF w.error /= "" THEN w
    ELSE IF (DOMAIN vals) \cap w.mcells /= {} THEN Raise(w, "AttributeError")
    ELSE [w EXCEPT !.cells = [q \in (DOMAIN w.cells) \cup (DOMAIN vals) |->
                                 IF q \in DOMAIN vals THEN vals[q] ELSE w.cells[q]]]

\* ws.merge_cells: the range is added unless a merged range contains it; every
\* cell of it but the top-left one becomes a MergedCell, the top-left one exists
merge_cells(w, rng) ==
    IF w.error /= "" THEN w
    ELSE LET rest == CellsOf(rng) \ {TopLeft(rng)}
         IN  Touch([w EXCEPT !.ranges = IF \E r \in w.ranges : IsSubrange(rng, r) THEN @
                                        ELSE @ \cup {rng},
                             !.mcells = @ \cup rest,
                             !.cells = Without(@, rest)],
                   {TopLeft(rng)})

\* ws.unmerge_cells: the range leaves the set and every cell of it but the
\* top-left one is deleted
unmerge_cells(w, rng) ==
    IF w.error /= "" THEN w
    ELSE IF ~\E r \in w.ranges : IsSubrange(rng, r) THEN Raise(w, "ValueError")
    ELSE IF rng \notin w.ranges THEN Raise(w, "KeyError")
    ELSE IF \E pos \in CellsOf(rng) \ {TopLeft(rng)} : ~Exists(w, pos)
    THEN Raise(w, "KeyError")
    ELSE [w EXCEPT !.ranges = @ \ {rng},
                   !.mcells = @ \ (CellsOf(rng) \ {TopLeft(rng)}),
                   !.cells = Without(@, CellsOf(rng) \ {TopLeft(rng)})]

RECURSIVE UnmergeAll(_, _)
UnmergeAll(w, order) ==
    IF order = <<>> THEN w ELSE UnmergeAll(unmerge_cells(w, Head(order)), Tail(order))

RECURSIVE MergeAll(_, _)
MergeAll(w, order) ==
    IF order = <<>> THEN w ELSE MergeAll(merge_cells(w, Head(order)), Tail(order))

ShiftPos(pos, at, n) == IF pos[1] >= at THEN <<pos[1] + n, pos[2]>> ELSE pos

\* ws.insert_rows(at, n): every cell at or below row at moves down n rows
insert_rows(w, at, n) ==
    IF w.error /= "" THEN w
    ELSE [w EXCEPT !.mcells = {ShiftPos(pos, at, n) : pos \in @},
                   !.cells = [q \in {ShiftPos(pos, at, n) : pos \in DOMAIN w.cells} |->
                                 IF q[1] >= at + n THEN w.cells[<<q[1] - n, q[2]>>]
                                 ELSE w.cells[q]]]

\* ws.max_row and ws.max_column
MaxRowOf(w) ==
    LET rs == {pos[1] : pos \in w.mcells \cup DOMAIN w.cells}
    IN  IF rs = {} THEN 1 ELSE MaxOf(rs)
MaxColumnOf(w) ==
    LET cs == {pos[2] : pos \in w.mcells \cup DOMAIN w.cells}
    IN  IF cs = {} THEN 1 ELSE MaxOf(cs)

\* The worksheet openpyxl loads from a file with the given merged ranges and
\* cell values: every cell of a range but its top-left one is a MergedCell
LoadSheet(ranges, values) ==
    LET m == UNION {CellsOf(r) \ {TopLeft(r)} : r \in ranges}
    IN  [ranges |-> ranges, mcells |-> m,
         cells |-> [pos \in ((DOMAIN values) \cup {TopLeft(r) : r \in ranges}) \ m |->
                       IF pos \in DOMAIN values THEN values[pos] ELSE <<>>],
         error |-> ""]

\* OUTPUT_HEADERS, as get_template_header_info maps them
OutputHeaderMap ==
    [k \in {"Numero da Meta Especifica", "Numero do Item", ACTION_HEADER_KEY,
            "Material/Servico", "Descricao", "Destinacao", "Instituicao",
            "Natureza da Despesa", "Quantidade Planejada", "Unidade de Medida",
            "Valor Planejado Total", "Status do Item"} |->
       CASE k = "Numero da Meta Especifica" -> 1 [] k = "Numero do Item" -> 2
         [] k = ACTION_HEADER_KEY -> 3 [] k = "Material/Servico" -> 4
         [] k = "Descricao" -> 5 [] k = "Destinacao" -> 6 [] k = "Instituicao" -> 7
         [] k = "Natureza da Despesa" -> 8 [] k = "Quantidade Planejada" -> 9
         [] k = "Unidade de Medida" -> 10 [] k = "Valor Planejado Total" -> 11
         [] k = "Status do Item" -> 12]

\* str.upper() of the words the program compares in upper case
UpperTok(t) ==
    CASE t = "Itens de Contratacao" -> "ITENS DE CONTRATACAO"
      [] t = "Analise dos Elementos do Plano de Aplicacao" ->
             "ANALISE DOS ELEMENTOS DO PLANO DE APLICACAO"
      [] t = "br" -> "BR"
      [] t = "ecv" -> "ECV"
      [] t = "evm" -> "EVM"
      [] t = "vpsp" -> "VPSP"
      [] OTHER -> t
Upper(text) == [i \in 1..Len(text) |-> UpperTok(text[i])]

ANALYSIS_TEMPLATE_TITLE == "ANALISE DOS ELEMENTOS DO PLANO DE APLICACAO"

is_analysis_template_sheet(w) ==
    LET title == Upper(normalize(ValueOf(w, <<2, 1>>)))
    IN  \E i \in 1..Len(title) : title[i] = ANALYSIS_TEMPLATE_TITLE

\* ACTION_HEADER_PATTERN.match(header)
ACTION_HEADER_PATTERN(header) ==
    LET d == SkipWhile(header, 2, Ws)
        e == SkipWhile(header, d, Digits)
        f == SkipWhile(header, e + 1, Ws)
    IN  /\ Len(header) >= 1
        /\ header[1] \in {"Acao conforme Art.", "ACAO CONFORME ART."}
        /\ e > d
        /\ e <= Len(header) /\ header[e] = "ORD"
        /\ f > e + 1
        /\ f = Len(header) /\ header[f] \in {"da portaria n 685", "DA PORTARIA N 685"}

\* _header_key; a header that is not the action header is one word
header_key(header) ==
    IF ACTION_HEADER_PATTERN(header) THEN ACTION_HEADER_KEY
    ELSE IF header = <<>> THEN ""
    ELSE header[1]

\* get_header_info_from_ws: header key -> the first column of the row that holds it
get_header_info_from_ws(w, hrow) ==
    LET cols == {c \in 1..MaxColumnOf(w) : ValueOf(w, <<hrow, c>>) /= <<>>}
        key(c) == header_key(Strip(ValueOf(w, <<hrow, c>>)))
    IN  [k \in {key(c) : c \in cols} |-> CHOOSE c \in cols :
            key(c) = k /\ \A d \in cols : key(d) = k => c <= d]

\* find_items_table_header_row; 0 is None
IsItemsTitle(v) == Upper(normalize(v)) = <<"ITENS DE CONTRATACAO">>
ItemsTitleRow(w) ==
    LET rs == {r \in 1..MaxRowOf(w) : IsItemsTitle(ValueOf(w, <<r, 1>>))}
    IN  IF rs = {} THEN 0 ELSE CHOOSE r \in rs : \A q \in rs : r <= q
find_items_table_header_row(w) == IF ItemsTitleRow(w) = 0 THEN 0 ELSE ItemsTitleRow(w) + 1

-----------------------------------------------------------------------------
(* Marker lines: META_RE and ITEM_RE *)

MetaWords == {"META ESPECIFICA", "meta especifica"}
ItemWords == {"Item", "ITEM"}
StatusWords == {"Planejado", "Aprovado", "Cancelado", "APROVADO", "cancelado", "pLANEJADO"}

\* A variant that keeps the letters of the status word as they were written
Capitalize_keeping_case(w) == w

\* str.capitalize() on a captured status word
Capitalize(w) ==
    CASE w = "APROVADO" -> "Aprovado"
      [] w = "cancelado" -> "Cancelado"
      [] w = "pLANEJADO" -> "Planejado"
      [] OTHER -> w

\* META_RE.match(line): the word, at least one blank, at least one digit
MetaNumStart(line) == SkipWhile(line, 2, Ws)
MetaNumEnd(line) == SkipWhile(line, MetaNumStart(line), Digits)
META_RE(line) ==
    /\ Len(line) >= 1
    /\ line[1] \in MetaWords
    /\ MetaNumStart(line) > 2
    /\ MetaNumEnd(line) > MetaNumStart(line)
MetaNumber(line) == ToInt(SubSeq(line, MetaNumStart(line), MetaNumEnd(line) - 1))

\* ITEM_RE.match(line): the word, optional blanks, digits, optional blanks,
\* an optional status word
ItemNumStart(line) == SkipWhile(line, 2, Ws)
ItemNumEnd(line) == SkipWhile(line, ItemNumStart(line), Digits)
ITEM_RE(line) ==
    /\ Len(line) >= 1
    /\ line[1] \in ItemWords
    /\ ItemNumEnd(line) > ItemNumStart(line)
ItemNumber(line) == ToInt(SubSeq(line, ItemNumStart(line), ItemNumEnd(line) - 1))
ItemStatus(line) ==
    LET m == SkipWhile(line, ItemNumEnd(line), Ws)
    IN  IF m <= Len(line) /\ line[m] \in StatusWords THEN line[m] ELSE ""

-----------------------------------------------------------------------------
(* parse_items *)

\* flush(): the items list and the three variables it resets
flush ==
    IF current_meta = NoneInt \/ current_item = NoneInt
    THEN [items |-> items, current_item |-> current_item,
          current_status |-> current_status, current_lines |-> current_lines]
    ELSE [items |-> Append(items, [meta |-> current_meta,
                                   item |-> current_item,
                                   status |-> current_status,
                                   lines |-> current_lines]),
          current_item |-> NoneInt,
          current_status |-> "",
          current_lines |-> <<>>]

\* One iteration of the loop over the lines
ParseItemsStep ==
    /\ pc = "parse_items"
    /\ idx <= Len(lines)
    /\ LET line == lines[idx]
           f == flush
       IN  IF META_RE(line)
           THEN /\ items' = f.items
                /\ current_item' = f.current_item
                /\ current_status' = f.current_status
                /\ current_lines' = f.current_lines
                /\ current_meta' = MetaNumber(line)
           ELSE IF ITEM_RE(line)
           THEN /\ items' = f.items
                /\ current_item' = ItemNumber(line)
                /\ current_status' = Capitalize(ItemStatus(line))
                /\ current_lines' = <<>>
                /\ UNCHANGED current_meta
           ELSE /\ current_lines' = IF current_item /= NoneInt
                                    THEN Append(current_lines, line)
                                    ELSE current_lines
                /\ UNCHANGED <<current_meta, current_item, current_status, items>>
    /\ idx' = idx + 1
    /\ UNCHANGED <<template, lines, pc, header_map, rowVars, secVars, curVars, sheetVars, appVars>>

\* The flush after the loop, and the return
ParseItemsEnd ==
    /\ pc = "parse_items"
    /\ idx > Len(lines)
    /\ LET f == flush
       IN  /\ items' = f.items
           /\ current_item' = f.current_item
           /\ current_status' = f.current_status
           /\ current_lines' = f.current_lines
    /\ pc' = IF items' = <<>> /\ (surface = "cli" \/ ~is_analysis_template_sheet(template))
             THEN "no_items" ELSE "plan_signature"
    /\ idx' = 1
    /\ UNCHANGED <<template, lines, current_meta, header_map, rowVars, secVars, curVars, sheetVars, appVars>>

-----------------------------------------------------------------------------
(* Plan signature and the article number it implies *)

UfWords == {"BR", "br"}
SiglaWords == {"ECV", "ecv", "EVM", "VPSP", "XYZ"}
YearWords == {"2018", "2021", "2023", "2026"}
YearVal(y) == CASE y = "2018" -> 2018 [] y = "2021" -> 2021
                [] y = "2023" -> 2023 [] y = "2026" -> 2026

\* PLAN_SIGNATURE_RE matched at token i of the line: two letters, a dash, the
\* acronym, a dash, a year 20dd; blanks are optional around the dashes
SigSiglaAt(line, i) == SkipWhile(line, SkipWhile(line, i + 1, Ws) + 1, Ws)
SigYearAt(line, i) == SkipWhile(line, SkipWhile(line, SigSiglaAt(line, i) + 1, Ws) + 1, Ws)
SignatureAt(line, i) ==
    /\ line[i] \in UfWords
    /\ SkipWhile(line, i + 1, Ws) <= Len(line)
    /\ line[SkipWhile(line, i + 1, Ws)] = "-"
    /\ SigSiglaAt(line, i) <= Len(line)
    /\ line[SigSiglaAt(line, i)] \in SiglaWords
    /\ SkipWhile(line, SigSiglaAt(line, i) + 1, Ws) <= Len(line)
    /\ line[SkipWhile(line, SigSiglaAt(line, i) + 1, Ws)] = "-"
    /\ SigYearAt(line, i) <= Len(line)
    /\ line[SigYearAt(line, i)] \in YearWords
PLAN_SIGNATURE_RE(line) == \E i \in 1..Len(line) : SignatureAt(line, i)
SignatureStart(line) ==
    CHOOSE i \in 1..Len(line) : SignatureAt(line, i) /\ \A j \in 1..(i - 1) : ~SignatureAt(line, j)

SignatureScanLimit == 120

\* A variant that takes the two letters before the first dash for the acronym
extract_plan_signature_uf_as_sigla(ls) ==
    LET max_lines == IF Len(ls) < SignatureScanLimit THEN Len(ls) ELSE SignatureScanLimit
        hits == {i \in 1..max_lines : PLAN_SIGNATURE_RE(Strip(ls[i]))}
        first == CHOOSE i \in hits : \A j \in hits : i <= j
        line == Strip(ls[first])
    IN  IF hits = {} THEN [sigla |-> "", ano |-> 0]
        ELSE [sigla |-> UpperTok(line[SignatureStart(line)]),
              ano |-> YearVal(line[SigYearAt(line, SignatureStart(line))])]

\* extract_plan_signature: sigla "" and ano 0 are None
extract_plan_signature(ls) ==
    LET max_lines == IF Len(ls) < SignatureScanLimit THEN Len(ls) ELSE SignatureScanLimit
        hits == {i \in 1..max_lines : PLAN_SIGNATURE_RE(Strip(ls[i]))}
        first == CHOOSE i \in hits : \A j \in hits : i <= j
        line == Strip(ls[first])
    IN  IF hits = {} THEN [sigla |-> "", ano |-> 0]
        ELSE [sigla |-> UpperTok(line[SigSiglaAt(line, SignatureStart(line))]),
              ano |-> YearVal(line[SigYearAt(line, SignatureStart(line))])]

\* A variant whose rule for EVM starts in 2019, as the other rules do
resolve_art_by_plan_rule_same_years(sigla, ano) ==
    LET upper == UpperTok(sigla)
    IN  IF sigla = "" \/ ano = 0 THEN <<>>
        ELSE IF upper \in {"ECV", "FISPDS", "RMVI"} /\ 2019 <= ano /\ ano <= 2025 THEN <<"6">>
        ELSE IF upper = "EVM" /\ 2019 <= ano /\ ano <= 2025 THEN <<"7">>
        ELSE IF upper \in {"VPSP", "MQVPSP"} /\ 2019 <= ano /\ ano <= 2025 THEN <<"8">>
        ELSE <<>>

\* resolve_art_by_plan_rule: the acronym is compared in upper case
resolve_art_by_plan_rule(sigla, ano) ==
    LET upper == UpperTok(sigla)
    IN  IF sigla = "" \/ ano = 0 THEN <<>>
        ELSE IF upper \in {"ECV", "FISPDS", "RMVI"} /\ 2019 <= ano /\ ano <= 2025 THEN <<"6">>
        ELSE IF upper = "EVM" /\ 2023 <= ano /\ ano <= 2025 THEN <<"7">>
        ELSE IF upper \in {"VPSP", "MQVPSP"} /\ 2019 <= ano /\ ano <= 2025 THEN <<"8">>
        ELSE <<>>

\* app: signature = extract_plan_signature(lines); art_num_preferred = ...
PlanSignature ==
    /\ pc = "plan_signature"
    /\ signature' = extract_plan_signature(lines)
    /\ art_num_preferred' = resolve_art_by_plan_rule(signature'.sigla, signature'.ano)
    /\ pc' = "header_info"
    /\ UNCHANGED <<template, lines, idx, itemVars, header_map, rowVars, secVars, curVars, sheetVars,
                   header_row, excel_header_row, missing_cells, runVars>>

\* get_template_header_info: the header map of row 2, or the one of OUTPUT_HEADERS
get_template_header_info(w) ==
    IF DOMAIN get_header_info_from_ws(w, 2) /= {} THEN get_header_info_from_ws(w, 2)
    ELSE OutputHeaderMap

\* get_analysis_items_header_info, on a fresh load of the template
get_analysis_items_header_info(w) ==
    IF find_items_table_header_row(w) = 0 THEN [header_row |-> 0, header_map |-> <<>>]
    ELSE [header_row |-> find_items_table_header_row(w),
          header_map |-> get_header_info_from_ws(w, find_items_table_header_row(w))]

\* The header map build_rows is given, read from the template file: main()
\* reads row 2 of any template, the app the item table of the analysis template
HeaderInfo ==
    /\ pc = "header_info"
    /\ IF surface = "app" /\ is_analysis_template_sheet(template)
       THEN /\ header_row' = get_analysis_items_header_info(template).header_row
            /\ header_map' = get_analysis_items_header_info(template).header_map
       ELSE /\ header_map' = get_template_header_info(template)
            /\ UNCHANGED header_row
    /\ pc' = "build_rows"
    /\ UNCHANGED <<template, lines, idx, itemVars, rowVars, secVars, curVars, sheetVars,
                   art_num_preferred, excel_header_row, missing_cells, signature, runVars>>

-----------------------------------------------------------------------------
(* CurrencyFormatter: strip_currency, format_currency, parse_int *)

RECURSIVE RemoveRS(_)
\* value.replace("R$", "")
RemoveRS(s) ==
    IF Len(s) < 2 THEN s
    ELSE IF s[1] = "R" /\ s[2] = "$" THEN RemoveRS(SubSeq(s, 3, Len(s)))
    ELSE <<Head(s)>> \o RemoveRS(Tail(s))

\* Every token of s that is in S, in order
Keep(s, S) == SelectSeq(s, LAMBDA c : c \in S)
\* Every token of s that is not in S, in order
Drop(s, S) == SelectSeq(s, LAMBDA c : c \notin S)

strip_currency(value) == Drop(Drop(Strip(RemoveRS(value)), {"."}), Ws)

\* A variant that keeps the leading zeros
LStripZeros_keeping_zeros(s) == s

RECURSIVE LStripZeros(_)
\* integer_part.lstrip("0")
LStripZeros(s) == IF s /= <<>> /\ Head(s) = "0" THEN LStripZeros(Tail(s)) ELSE s

RECURSIVE GroupThousandsComma(_)
\* A variant that separates the groups with a comma
GroupThousandsComma(integer_part) ==
    IF Len(integer_part) <= 3 THEN integer_part
    ELSE GroupThousandsComma(SubSeq(integer_part, 1, Len(integer_part) - 3))
         \o <<",">> \o SubSeq(integer_part, Len(integer_part) - 2, Len(integer_part))

RECURSIVE GroupThousands(_)
\* the while loop of format_currency: groups of three digits from the right
GroupThousands(integer_part) ==
    IF Len(integer_part) <= 3 THEN integer_part
    ELSE GroupThousands(SubSeq(integer_part, 1, Len(integer_part) - 3))
         \o <<".">> \o SubSeq(integer_part, Len(integer_part) - 2, Len(integer_part))

\* str.ljust(2, "0") of a text of at most two tokens
LJust2(s) == IF Len(s) = 0 THEN <<"0", "0">> ELSE IF Len(s) = 1 THEN s \o <<"0">> ELSE s

format_currency(v) ==
    LET value == strip_currency(v)
        has_comma == \E i \in 1..Len(value) : value[i] = ","
        first_comma == CHOOSE i \in 1..Len(value) :
                           value[i] = "," /\ \A j \in 1..(i - 1) : value[j] /= ","
        integer_raw == IF has_comma THEN SubSeq(value, 1, first_comma - 1) ELSE value
        decimal_raw == IF has_comma THEN SubSeq(value, first_comma + 1, Len(value))
                       ELSE <<"0", "0">>
        decimal_digits == Keep(decimal_raw, Digits)
        decimal_part == LJust2(SubSeq(decimal_digits, 1,
                                      IF Len(decimal_digits) < 2 THEN Len(decimal_digits) ELSE 2))
        stripped == LStripZeros(Keep(integer_raw, Digits))
        integer_part == IF stripped = <<>> THEN <<"0">> ELSE stripped
    IN  IF value = <<>> THEN <<>>
        ELSE <<"R", "$", " ">> \o GroupThousands(integer_part) \o <<",">> \o decimal_part

\* parse_int: the decimal text of int(digits), or the empty text
parse_int(value) ==
    LET digits == Keep(value, Digits)
        stripped == LStripZeros(digits)
    IN  IF digits = <<>> THEN <<>>
        ELSE IF stripped = <<>> THEN <<"0">> ELSE stripped

-----------------------------------------------------------------------------
(* FieldExtractor: extract_fields *)

FieldKeys == {"bem", "descricao", "destinacao", "unidade", "quantidade",
              "natureza", "instituicao", "valor_total", "acao", "art"}

\* CAPTURE_PATTERNS: the label word each pattern matches at the start of a line
CaptureLabels == {"Bem/Servico:", "Material/Servico:", "Descricao:", "Destinacao:",
                  "Unidade de Medida:", "Qtd. Planejada:", "Quantidade Planejada:",
                  "Natureza (ND):", "Instituicao:", "Valor Total:"}
\* A variant that files the description under the destination
CAPTURE_PATTERNS_misfiled(label) ==
    CASE label \in {"Bem/Servico:", "Material/Servico:"} -> "bem"
      [] label = "Descricao:" -> "destinacao"
      [] label = "Destinacao:" -> "destinacao"
      [] label = "Unidade de Medida:" -> "unidade"
      [] label \in {"Qtd. Planejada:", "Quantidade Planejada:"} -> "quantidade"
      [] label = "Natureza (ND):" -> "natureza"
      [] label = "Instituicao:" -> "instituicao"
      [] label = "Valor Total:" -> "valor_total"

CAPTURE_PATTERNS(label) ==
    CASE label \in {"Bem/Servico:", "Material/Servico:"} -> "bem"
      [] label = "Descricao:" -> "descricao"
      [] label = "Destinacao:" -> "destinacao"
      [] label = "Unidade de Medida:" -> "unidade"
      [] label \in {"Qtd. Planejada:", "Quantidade Planejada:"} -> "quantidade"
      [] label = "Natureza (ND):" -> "natureza"
      [] label = "Instituicao:" -> "instituicao"
      [] label = "Valor Total:" -> "valor_total"

STOP_PATTERNS == {"Cod. Senasp:", "Valor Originario Planejado:",
                  "Valor Suplementar Planejado:", "Valor Rendimento Planejado:"}
StopMatch(line) == Len(line) >= 1 /\ line[1] \in STOP_PATTERNS

\* ACTION_PATTERN.match(line)
ActionWords == {"Acao:", "ACAO:"}
ACTION_PATTERN(line) == Len(line) >= 1 /\ line[1] \in ActionWords

\* Text captured by a trailing \s*(.*) group that starts at token i, stripped
BodyFrom(line, i) == Strip(SubSeq(line, i, Len(line)))

\* ART_PATTERN: "Art" with an optional period, blanks, 6|7|8, blanks, an optional
\* ordinal sign, blanks, an optional parenthesised number, blanks, a colon, the body
ArtWords == {"Art.", "Art"}
ArtNumAt(line) == SkipWhile(line, 2, Ws)
ArtAfterOrd(line) ==
    LET a == SkipWhile(line, ArtNumAt(line) + 1, Ws)
    IN  IF a <= Len(line) /\ line[a] = "ORD" THEN a + 1 ELSE ArtNumAt(line) + 1
ArtAfterParen(line) ==
    LET p == SkipWhile(line, ArtAfterOrd(line), Ws)
        q == SkipWhile(line, p + 1, Digits)
    IN  IF p <= Len(line) /\ line[p] = "(" /\ q > p + 1
           /\ q <= Len(line) /\ line[q] = ")"
        THEN q + 1 ELSE ArtAfterOrd(line)
ArtColonAt(line) == SkipWhile(line, ArtAfterParen(line), Ws)
ART_PATTERN(line) ==
    /\ Len(line) >= 1
    /\ line[1] \in ArtWords
    /\ ArtNumAt(line) <= Len(line)
    /\ line[ArtNumAt(line)] \in {"6", "7", "8"}
    /\ ArtColonAt(line) <= Len(line)
    /\ line[ArtColonAt(line)] = ":"

CaptureMatch(line) == Len(line) >= 1 /\ line[1] \in CaptureLabels

\* The state of the loop of extract_fields before any line is read
ExtractFieldsStart ==
    [fields |-> [k \in FieldKeys |-> <<>>], art_num |-> <<>>, current_field |-> ""]

AppendIfNonEmpty(st, key, body) ==
    IF body = <<>> THEN st.fields
    ELSE [st.fields EXCEPT ![key] = Append(@, body)]

\* A variant in which a stop line leaves the active field open
ExtractFieldsLine_keeping_field_at_stop(st, line) ==
    IF StopMatch(line)
    THEN st
    ELSE IF ACTION_PATTERN(line)
    THEN [st EXCEPT !.current_field = "acao",
                    !.fields = AppendIfNonEmpty(st, "acao", BodyFrom(line, 2))]
    ELSE IF ART_PATTERN(line)
    THEN [st EXCEPT !.current_field = "art",
                    !.fields = AppendIfNonEmpty(st, "art",
                                                BodyFrom(line, ArtColonAt(line) + 1)),
                    !.art_num = <<line[ArtNumAt(line)]>>]
    ELSE IF CaptureMatch(line)
    THEN [st EXCEPT !.current_field = CAPTURE_PATTERNS(line[1]),
                    !.fields = AppendIfNonEmpty(st, CAPTURE_PATTERNS(line[1]),
                                                BodyFrom(line, 2))]
    ELSE IF st.current_field /= ""
    THEN [st EXCEPT !.fields[st.current_field] = Append(@, line)]
    ELSE st

\* One iteration of the loop of extract_fields
ExtractFieldsLine(st, line) ==
    IF StopMatch(line)
    THEN [st EXCEPT !.current_field = ""]
    ELSE IF ACTION_PATTERN(line)
    THEN [st EXCEPT !.current_field = "acao",
                    !.fields = AppendIfNonEmpty(st, "acao", BodyFrom(line, 2))]
    ELSE IF ART_PATTERN(line)
    THEN [st EXCEPT !.current_field = "art",
                    !.fields = AppendIfNonEmpty(st, "art",
                                                BodyFrom(line, ArtColonAt(line) + 1)),
                    !.art_num = <<line[ArtNumAt(line)]>>]
    ELSE IF CaptureMatch(line)
    THEN [st EXCEPT !.current_field = CAPTURE_PATTERNS(line[1]),
                    !.fields = AppendIfNonEmpty(st, CAPTURE_PATTERNS(line[1]),
                                                BodyFrom(line, 2))]
    ELSE IF st.current_field /= ""
    THEN [st EXCEPT !.fields[st.current_field] = Append(@, line)]
    ELSE st

RECURSIVE ExtractFieldsLoop(_, _)
ExtractFieldsLoop(st, item_lines) ==
    IF item_lines = <<>> THEN st
    ELSE ExtractFieldsLoop(ExtractFieldsLine(st, Head(item_lines)), Tail(item_lines))

\* extract_fields: every accumulator joined and blanked
extract_fields(item_lines) ==
    LET st == ExtractFieldsLoop(ExtractFieldsStart, item_lines)
    IN  [k \in FieldKeys \cup {"art_num"} |->
            IF k = "art_num" THEN blank_if_dash_only(st.art_num)
            ELSE blank_if_dash_only(JoinSpace(st.fields[k]))]

-----------------------------------------------------------------------------
(* build_rows *)

RowKeys == {"Numero da Meta Especifica", "Numero do Item", ACTION_HEADER_KEY,
            ACTION_HEADER_NUM_KEY, "Material/Servico", "Descricao", "Destinacao",
            "Instituicao", "Natureza da Despesa", "Quantidade Planejada",
            "Unidade de Medida", "Quantidade/Unidade", "Valor Planejado Total",
            "Status do Item", "Valor/Status"}

DigitOf(n) ==
    CASE n = 0 -> "0" [] n = 1 -> "1" [] n = 2 -> "2" [] n = 3 -> "3"
      [] n = 4 -> "4" [] n = 5 -> "5" [] n = 6 -> "6" [] n = 7 -> "7"
      [] n = 8 -> "8" [] n = 9 -> "9"

RECURSIVE IntText(_)
\* str(n) of a number n >= 0
IntText(n) == IF n < 10 THEN <<DigitOf(n)>> ELSE IntText(n \div 10) \o <<DigitOf(n % 10)>>

RECURSIVE JoinWith(_, _)
\* sep.join(parts)
JoinWith(parts, sep) ==
    IF parts = <<>> THEN <<>>
    ELSE IF Len(parts) = 1 THEN parts[1]
    ELSE parts[1] \o sep \o JoinWith(Tail(parts), sep)

Bar == <<" ", "|", " ">>

build_material(bem, descricao, destinacao) ==
    LET parts == (IF bem /= <<>> THEN <<<<"Bem/Servico:", " ">> \o bem>> ELSE <<>>)
              \o (IF descricao /= <<>> THEN <<<<"Descricao:", " ">> \o descricao>> ELSE <<>>)
              \o (IF destinacao /= <<>> THEN <<<<"Destinacao:", " ">> \o destinacao>> ELSE <<>>)
    IN  JoinWith(parts, Bar)

\* The row build_rows makes of one item and its extracted fields
BuildRow(item, f, hm) ==
    LET has_descricao == "Descricao" \in DOMAIN hm
        has_destinacao == "Destinacao" \in DOMAIN hm
        has_quantidade_unidade == "Quantidade/Unidade" \in DOMAIN hm
        has_valor_status == "Valor/Status" \in DOMAIN hm
        has_unidade_col == "Unidade de Medida" \in DOMAIN hm
        has_status_col == "Status do Item" \in DOMAIN hm
        material == IF has_descricao \/ has_destinacao THEN f["bem"]
                    ELSE build_material(f["bem"], f["descricao"], f["destinacao"])
        valor_total == format_currency(f["valor_total"])
        quantidade == parse_int(f["quantidade"])
        unidade == f["unidade"]
        status_item == IF item.status /= "" THEN <<item.status>> ELSE <<"Planejado">>
        quantidade_unidade ==
            IF has_quantidade_unidade /\ ~has_unidade_col
            THEN IF quantidade /= <<>> /\ unidade /= <<>>
                 THEN quantidade \o <<" ">> \o unidade
                 ELSE IF quantidade /= <<>> THEN quantidade
                 ELSE unidade
            ELSE <<>>
        valor_status ==
            IF has_valor_status /\ ~has_status_col
            THEN IF valor_total /= <<>> THEN valor_total \o Bar \o status_item
                 ELSE status_item
            ELSE <<>>
    IN  [k \in RowKeys |->
          CASE k = "Numero da Meta Especifica" -> IntText(item.meta)
            [] k = "Numero do Item" -> IntText(item.item)
            [] k = ACTION_HEADER_KEY -> IF f["acao"] /= <<>> THEN f["acao"] ELSE f["art"]
            [] k = ACTION_HEADER_NUM_KEY -> f["art_num"]
            [] k = "Material/Servico" -> material
            [] k = "Descricao" -> IF has_descricao THEN f["descricao"] ELSE <<>>
            [] k = "Destinacao" -> IF has_destinacao THEN f["destinacao"] ELSE <<>>
            [] k = "Instituicao" -> f["instituicao"]
            [] k = "Natureza da Despesa" -> f["natureza"]
            [] k = "Quantidade Planejada" -> quantidade
            [] k = "Unidade de Medida" -> f["unidade"]
            [] k = "Quantidade/Unidade" -> quantidade_unidade
            [] k = "Valor Planejado Total" -> valor_total
            [] k = "Status do Item" -> status_item
            [] k = "Valor/Status" -> valor_status]

\* One iteration of the loop of build_rows
BuildRowsStep ==
    /\ pc = "build_rows"
    /\ idx <= Len(items)
    /\ fields' = extract_fields(items[idx].lines)
    /\ rows' = Append(rows, BuildRow(items[idx], fields', header_map))
    /\ idx' = idx + 1
    /\ UNCHANGED <<template, lines, pc, itemVars, header_map, secVars, curVars, sheetVars, appVars>>

BuildRowsEnd ==
    /\ pc = "build_rows"
    /\ idx > Len(items)
    /\ pc' = IF is_analysis_template_sheet(ws) THEN "analysis_data" ELSE "items_table"
    /\ idx' = 1
    /\ UNCHANGED <<template, lines, itemVars, header_map, rowVars, secVars, curVars, sheetVars, appVars>>

-----------------------------------------------------------------------------
(* SectionParser: document-level narrative texts *)

FirstIs(line, words) == Len(line) >= 1 /\ line[1] \in words

META_GERAL_LINE_RE(line) == line \in {<<"Meta Geral">>, <<"META GERAL">>}
INDICADOR_GERAL_LINE_RE(line) == line = <<"Indicador Geral de Resultado">>

\* Index of the first line of ls that satisfies P (Len(ls)+1 if none)
FirstLine(ls, P(_)) ==
    IF \E i \in 1..Len(ls) : P(ls[i])
    THEN CHOOSE i \in 1..Len(ls) : P(ls[i]) /\ \A j \in 1..(i - 1) : ~P(ls[j])
    ELSE Len(ls) + 1

\* The lines of ls before the first one that satisfies Stop
TakeUntil(ls, Stop(_)) == SubSeq(ls, 1, FirstLine(ls, Stop) - 1)

extract_meta_geral(ls) ==
    LET i == FirstLine(ls, META_GERAL_LINE_RE)
        Stop(l) == FirstIs(l, {"Justificativa", "Indicador Geral de Resultado"} \cup MetaWords)
    IN  IF i > Len(ls) THEN <<>>
        ELSE blank_if_dash_only(JoinSpace(TakeUntil(SubSeq(ls, i + 1, Len(ls)), Stop)))

extract_indicador_geral_completo(ls) ==
    LET i == FirstLine(ls, INDICADOR_GERAL_LINE_RE)
        Stop(l) == FirstIs(l, {"Meta Geral", "META GERAL"} \cup MetaWords)
    IN  IF i > Len(ls) THEN <<>>
        ELSE blank_if_dash_only(JoinSpace(TakeUntil(SubSeq(ls, i + 1, Len(ls)), Stop)))

\* VALOR_REFERENCIA_RE.search(line): the words, optional blanks, a colon, anywhere
ValorRefAt(line, i) ==
    /\ line[i] = "Valor de Referencia"
    /\ SkipWhile(line, i + 1, Ws) <= Len(line)
    /\ line[SkipWhile(line, i + 1, Ws)] = ":"
VALOR_REFERENCIA_RE(line) == \E i \in 1..Len(line) : ValorRefAt(line, i)
ValorRefStart(line) ==
    CHOOSE i \in 1..Len(line) :
        ValorRefAt(line, i) /\ \A j \in 1..(i - 1) : ~ValorRefAt(line, j)

extract_indicador_geral_valor_referencia(ls) ==
    LET i == FirstLine(ls, VALOR_REFERENCIA_RE)
        Stop(l) == FirstIs(l, MetaWords \cup {"Descricao do Indicador:", "Itens da Meta",
                                             "Status:"})
    IN  IF i > Len(ls) THEN <<>>
        ELSE blank_if_dash_only(JoinSpace(
                 <<Strip(SubSeq(ls[i], ValorRefStart(ls[i]), Len(ls[i])))>>
                 \o TakeUntil(SubSeq(ls, i + 1, Len(ls)), Stop)))

\* extract_analysis_data, the three texts computed before the sections
ExtractAnalysisData ==
    /\ pc = "analysis_data"
    /\ analysis_data' =
         [zero_indicador_geral |-> extract_indicador_geral_completo(lines),
          one_meta_geral |-> extract_meta_geral(lines),
          three_valor_referencia |-> extract_indicador_geral_valor_referencia(lines)]
    /\ pc' = "sections"
    /\ idx' = 1
    /\ UNCHANGED <<template, lines, itemVars, header_map, rowVars, current, current_field, sections, curVars, sheetVars, appVars>>

-----------------------------------------------------------------------------
(* SectionParser: extract_meta_especifica_sections *)

SectionKeys == {"meta_texto", "descricao_indicador", "formula", "meta_pesp",
                "meta_pnsp", "carteira_mjsp"}

SectionLabels == {"Descricao do Indicador:", "Formula:", "Carteira de Politicas do MJSP:",
                  "Meta do PNSP:", "Meta do PESP:"}
SECTION_LABEL_PATTERNS(label) ==
    CASE label = "Descricao do Indicador:" -> "descricao_indicador"
      [] label = "Formula:" -> "formula"
      [] label = "Carteira de Politicas do MJSP:" -> "carteira_mjsp"
      [] label = "Meta do PNSP:" -> "meta_pnsp"
      [] label = "Meta do PESP:" -> "meta_pesp"

finalize_meta_section(section) ==
    [numero_meta |-> section.numero_meta,
     text |-> [k \in SectionKeys |-> blank_if_dash_only(JoinSpace(section.text[k]))]]

\* META_PESP_CUTOFF_RE.search(text): one of the words at a word boundary,
\* optional blanks, a colon
CutoffWords == {"Periodicidade", "Fonte", "Fonte/Ano", "Valor de Referencia",
                "Valor de Referencia/Fonte"}
WordChars == {"a", "b"} \cup Digits
CutoffAt(text, i) ==
    /\ text[i] \in CutoffWords
    /\ (i = 1 \/ text[i - 1] \notin WordChars)
    /\ SkipWhile(text, i + 1, Ws) <= Len(text)
    /\ text[SkipWhile(text, i + 1, Ws)] = ":"
META_PESP_CUTOFF_RE(text) == \E i \in 1..Len(text) : CutoffAt(text, i)
CutoffStart(text) ==
    CHOOSE i \in 1..Len(text) : CutoffAt(text, i) /\ \A j \in 1..(i - 1) : ~CutoffAt(text, j)

\* A variant that cuts after the word of the label and keeps the word
trim_meta_pesp_keeping_label_word(t) ==
    LET text == blank_if_dash_only(t)
    IN  IF text = <<>> THEN <<>>
        ELSE IF META_PESP_CUTOFF_RE(text)
        THEN blank_if_dash_only(SubSeq(text, 1, CutoffStart(text)))
        ELSE blank_if_dash_only(text)

trim_meta_pesp(t) ==
    LET text == blank_if_dash_only(t)
    IN  IF text = <<>> THEN <<>>
        ELSE IF META_PESP_CUTOFF_RE(text)
        THEN blank_if_dash_only(SubSeq(text, 1, CutoffStart(text) - 1))
        ELSE blank_if_dash_only(text)

\* A variant that keeps one section per goal number
PushSectionByNumber(secs, section) ==
    IF \E i \in 1..Len(secs) : secs[i].numero_meta = section.numero_meta
    THEN [i \in 1..Len(secs) |->
             IF secs[i].numero_meta = section.numero_meta
             THEN finalize_meta_section(section) ELSE secs[i]]
    ELSE Append(secs, finalize_meta_section(section))

\* sections.append(_finalize_meta_section(current))
PushSection(secs, section) == Append(secs, finalize_meta_section(section))

NewSection(n) == [numero_meta |-> n, text |-> [k \in SectionKeys |-> <<>>]]

\* The lines that end narrative capture
SectionStop(line) ==
    \/ FirstIs(line, {"Status:"})
    \/ line = <<"Itens da Meta">>
    \/ ITEM_RE(line)

\* One iteration of the loop of extract_meta_especifica_sections
SectionsStep ==
    /\ pc = "sections"
    /\ idx <= Len(lines)
    /\ LET line == lines[idx]
       IN  IF META_RE(line)
           THEN /\ sections' = IF current /= <<>>
                               THEN PushSection(sections, current[1])
                               ELSE sections
                /\ current' = <<NewSection(MetaNumber(line))>>
                /\ current_field' = "meta_texto"
           ELSE IF current = <<>>
           THEN UNCHANGED <<sections, current, current_field>>
           ELSE IF SectionStop(line)
           THEN /\ current_field' = ""
                /\ UNCHANGED <<sections, current>>
           ELSE IF FirstIs(line, SectionLabels)
           THEN /\ current_field' = SECTION_LABEL_PATTERNS(line[1])
                /\ current' = IF BodyFrom(line, 2) /= <<>>
                              THEN <<[current[1] EXCEPT !.text[current_field'] =
                                                           Append(@, BodyFrom(line, 2))]>>
                              ELSE current
                /\ UNCHANGED sections
           ELSE /\ current' = IF current_field /= ""
                              THEN <<[current[1] EXCEPT !.text[current_field] =
                                                           Append(@, line)]>>
                              ELSE current
                /\ UNCHANGED <<sections, current_field>>
    /\ idx' = idx + 1
    /\ UNCHANGED <<template, lines, pc, itemVars, header_map, rowVars, analysis_data, curVars, sheetVars, appVars>>

\* The last section is finalized and meta_pesp of every section is trimmed
SectionsEnd ==
    /\ pc = "sections"
    /\ idx > Len(lines)
    /\ LET all == IF current /= <<>>
                  THEN PushSection(sections, current[1])
                  ELSE sections
       IN  sections' = [i \in 1..Len(all) |->
                          [all[i] EXCEPT !.text["meta_pesp"] = trim_meta_pesp(@)]]
    /\ pc' = "fill"
    /\ idx' = 1
    /\ UNCHANGED <<template, lines, itemVars, header_map, rowVars, analysis_data, current, current_field, curVars, sheetVars, appVars>>

-----------------------------------------------------------------------------
(* BlockReplicator: row insertion that preserves the merged ranges *)

\* A variant for which ranges that share only a border row or column do not overlap
ranges_overlap_strict(a, b) ==
    ~(a[3] <= b[1] \/ b[3] <= a[1] \/ a[4] <= b[2] \/ b[4] <= a[2])

ranges_overlap(a, b) ==
    ~(a[3] < b[1] \/ b[3] < a[1] \/ a[4] < b[2] \/ b[4] < a[2])

\* A variant that also keeps a candidate of one cell
add_range_keeping_single_cells(rb, min_row, min_col, max_row, max_col) ==
    IF min_row > max_row \/ min_col > max_col THEN rb
    ELSE IF \E i \in 1..Len(rb) :
                ranges_overlap(<<min_row, min_col, max_row, max_col>>, rb[i])
    THEN rb
    ELSE Append(rb, <<min_row, min_col, max_row, max_col>>)

\* A variant that takes two ranges to overlap as soon as they share a row
add_range_comparing_rows(rb, min_row, min_col, max_row, max_col) ==
    IF min_row > max_row \/ min_col > max_col THEN rb
    ELSE IF min_row = max_row /\ min_col = max_col THEN rb
    ELSE IF \E i \in 1..Len(rb) : ~(max_row < rb[i][1] \/ rb[i][3] < min_row)
    THEN rb
    ELSE Append(rb, <<min_row, min_col, max_row, max_col>>)

\* add_range: the candidate is appended unless it is empty, a single cell or
\* overlaps a range already rebuilt
add_range(rb, min_row, min_col, max_row, max_col) ==
    IF min_row > max_row \/ min_col > max_col THEN rb
    ELSE IF min_row = max_row /\ min_col = max_col THEN rb
    ELSE IF \E i \in 1..Len(rb) :
                ranges_overlap(<<min_row, min_col, max_row, max_col>>, rb[i])
    THEN rb
    ELSE Append(rb, <<min_row, min_col, max_row, max_col>>)

\* A variant whose post-part starts at the first inserted row
RebuildOne_post_part_from_insert_at(rb, rng, at, n) ==
    IF rng[3] < at THEN add_range(rb, rng[1], rng[2], rng[3], rng[4])
    ELSE IF rng[1] >= at THEN add_range(rb, rng[1] + n, rng[2], rng[3] + n, rng[4])
    ELSE add_range(add_range(rb, rng[1], rng[2], at - 1, rng[4]),
                   at, rng[2], rng[3] + n, rng[4])

\* The body of the loop over original_ranges
RebuildOne(rb, rng, at, n) ==
    IF rng[3] < at THEN add_range(rb, rng[1], rng[2], rng[3], rng[4])
    ELSE IF rng[1] >= at THEN add_range(rb, rng[1] + n, rng[2], rng[3] + n, rng[4])
    ELSE add_range(add_range(rb, rng[1], rng[2], at - 1, rng[4]),
                   at + n, rng[2], rng[3] + n, rng[4])

RECURSIVE Rebuild(_, _, _, _)
Rebuild(rb, order, at, n) ==
    IF order = <<>> THEN rb
    ELSE Rebuild(RebuildOne(rb, Head(order), at, n), Tail(order), at, n)

\* _insert_rows_preserving_merges, with original_ranges in the given order
InsertRowsPreservingMerges(w, at, n, order) ==
    IF n <= 0 THEN w
    ELSE MergeAll(insert_rows(UnmergeAll(w, order), at, n), Rebuild(<<>>, order, at, n))

-----------------------------------------------------------------------------
(* BlockReplicator: the goal blocks *)

\* The set of rows x columns of the block that starts at start_row
BlockCells(start_row) ==
    {<<r, c>> : r \in start_row..(start_row + ANALYSIS_BLOCK_HEIGHT - 1),
                c \in ANALYSIS_BLOCK_START_COL..ANALYSIS_BLOCK_END_COL}

BlockStartRow(block_idx) == ANALYSIS_BLOCK_START_ROW + (block_idx - 1) * ANALYSIS_BLOCK_HEIGHT

count_analysis_blocks(w) ==
    Max(Cardinality({merged \in w.ranges :
            /\ merged[2] = ANALYSIS_BLOCK_START_COL
            /\ merged[4] = ANALYSIS_BLOCK_START_COL
            /\ merged[3] - merged[1] + 1 = ANALYSIS_BLOCK_HEIGHT
            /\ merged[1] >= ANALYSIS_BLOCK_START_ROW
            /\ (merged[1] - ANALYSIS_BLOCK_START_ROW) % ANALYSIS_BLOCK_HEIGHT = 0}), 1)

\* A variant that leaves out the ranges that start on the first row of the block
TemplateMergesBelowFirstRow(w, src_start_row) ==
    {rng \in w.ranges : /\ rng[1] > src_start_row
                        /\ rng[3] < src_start_row + ANALYSIS_BLOCK_HEIGHT
                        /\ rng[2] >= ANALYSIS_BLOCK_START_COL
                        /\ rng[4] <= ANALYSIS_BLOCK_END_COL}

\* The merged ranges _copy_analysis_block copies: those inside the source block
TemplateMerges(w, src_start_row) ==
    {rng \in w.ranges : /\ rng[1] >= src_start_row
                        /\ rng[3] < src_start_row + ANALYSIS_BLOCK_HEIGHT
                        /\ rng[2] >= ANALYSIS_BLOCK_START_COL
                        /\ rng[4] <= ANALYSIS_BLOCK_END_COL}

\* _copy_analysis_block: every cell of the destination block takes the value of
\* the source cell, then every merged range of the source block is merged again
\* shift rows lower.  The ranges are merged in the given order.
CopyAnalysisBlock(w, src_start_row, dst_start_row, order) ==
    LET shift == dst_start_row - src_start_row
        w1 == Touch(w, BlockCells(src_start_row) \cup BlockCells(dst_start_row))
        w2 == SetValues(w1, [pos \in BlockCells(dst_start_row) |->
                                ValueOf(w1, <<pos[1] - shift, pos[2]>>)])
    IN  MergeAll(w2, [i \in 1..Len(order) |->
                        <<order[i][1] + shift, order[i][2], order[i][3] + shift, order[i][4]>>])

\* The ranges of the source block do not change while blocks are copied, so one
\* iteration order serves every copy
copy_analysis_block(w, src_start_row, dst_start_row) ==
    CopyAnalysisBlock(w, src_start_row, dst_start_row,
                      SomeOrder(TemplateMerges(w, src_start_row)))

\* The merged ranges _unmerge_analysis_block_region removes
RegionMerges(w, block_start_row) ==
    {rng \in w.ranges : /\ rng[1] >= block_start_row
                        /\ rng[3] <= block_start_row + ANALYSIS_BLOCK_HEIGHT - 1
                        /\ rng[2] >= ANALYSIS_BLOCK_START_COL
                        /\ rng[4] <= ANALYSIS_BLOCK_END_COL}

RECURSIVE CopyBlocks(_, _, _)
\* The loop of _ensure_analysis_blocks over the new blocks
CopyBlocks(w, block_idx, required_blocks) ==
    IF block_idx > required_blocks THEN w
    ELSE CopyBlocks(copy_analysis_block(w, ANALYSIS_BLOCK_START_ROW, BlockStartRow(block_idx)),
                    block_idx + 1, required_blocks)

\* The title-row scan of _ensure_analysis_blocks reads column A of every row
ScanColumnA(w) ==
    Touch(w, {<<r, 1>> : r \in 1..(IF ItemsTitleRow(w) = 0 THEN MaxRowOf(w)
                                    ELSE ItemsTitleRow(w))})

\* insert_at and rows_to_insert as _ensure_analysis_blocks computes them
EnsureInsertAt(w) == ANALYSIS_BLOCK_START_ROW + count_analysis_blocks(w) * ANALYSIS_BLOCK_HEIGHT
\* A variant that reuses the whole gap and keeps no separator row
EnsureRowsToInsert_reusing_whole_gap(w, required_blocks) ==
    LET items_title_row == ItemsTitleRow(w)
        additional_rows_needed ==
            (required_blocks - count_analysis_blocks(w)) * ANALYSIS_BLOCK_HEIGHT
        reusable_gap_rows ==
            IF items_title_row /= 0 /\ items_title_row > EnsureInsertAt(w)
            THEN Max(0, items_title_row - EnsureInsertAt(w))
            ELSE 0
    IN  Max(0, additional_rows_needed - reusable_gap_rows)

\* A variant that inserts one row less than the new blocks need
EnsureRowsToInsert_one_row_short(w, required_blocks) ==
    LET items_title_row == ItemsTitleRow(w)
        additional_rows_needed ==
            (required_blocks - count_analysis_blocks(w)) * ANALYSIS_BLOCK_HEIGHT
        reusable_gap_rows ==
            IF items_title_row /= 0 /\ items_title_row > EnsureInsertAt(w)
            THEN Max(0, (items_title_row - EnsureInsertAt(w)) - 1)
            ELSE 0
    IN  Max(0, additional_rows_needed - reusable_gap_rows - 1)

EnsureRowsToInsert(w, required_blocks) ==
    LET items_title_row == ItemsTitleRow(w)
        additional_rows_needed ==
            (required_blocks - count_analysis_blocks(w)) * ANALYSIS_BLOCK_HEIGHT
        reusable_gap_rows ==
            IF items_title_row /= 0 /\ items_title_row > EnsureInsertAt(w)
            THEN Max(0, (items_title_row - EnsureInsertAt(w)) - 1)
            ELSE 0
    IN  Max(0, additional_rows_needed - reusable_gap_rows)

\* _ensure_analysis_blocks, the merged ranges iterated in the given order
ensure_analysis_blocks(w, required_blocks, order) ==
    IF required_blocks <= count_analysis_blocks(w) THEN w
    ELSE CopyBlocks(InsertRowsPreservingMerges(ScanColumnA(w), EnsureInsertAt(w),
                                               EnsureRowsToInsert(w, required_blocks), order),
                    count_analysis_blocks(w) + 1, required_blocks)

-----------------------------------------------------------------------------
(* CellInjector: the text written into the cells *)

\* Index of the first token of s equal to tok (0 if none)
IndexOf(s, tok) ==
    IF \E i \in 1..Len(s) : s[i] = tok
    THEN CHOOSE i \in 1..Len(s) : s[i] = tok /\ \A j \in 1..(i - 1) : s[j] /= tok
    ELSE 0
Before(s, tok) == SubSeq(s, 1, IndexOf(s, tok) - 1)
After(s, tok) == SubSeq(s, IndexOf(s, tok) + 1, Len(s))

RECURSIVE replace_placeholder_segment(_, _, _)
\* Every segment token ... token of the text is replaced by the value
replace_placeholder_segment(base_text, token, v) ==
    IF IndexOf(base_text, token) = 0 \/ IndexOf(After(base_text, token), token) = 0
    THEN base_text
    ELSE Before(base_text, token) \o v
         \o replace_placeholder_segment(After(After(base_text, token), token), token, v)

BlankLines == <<"\n", "\n", "\n", "\n">>

inject_reference_text(base_text, reference_text) ==
    LET marker == "A referencia informada foi:"
    IN  IF reference_text = <<>> THEN base_text
        ELSE IF IndexOf(base_text, marker) = 0 THEN reference_text
        ELSE Before(base_text, marker) \o <<marker>> \o BlankLines \o reference_text

inject_meta_text(base_text, marker, v) ==
    LET after == After(base_text, marker)
        suffix_idx == IndexOf(after, "Existe aderencia")
        suffix == IF suffix_idx /= 0
                  THEN BlankLines \o Strip(SubSeq(after, suffix_idx, Len(after)))
                  ELSE <<>>
    IN  IF v = <<>> THEN base_text
        ELSE IF IndexOf(base_text, marker) = 0 THEN v
        ELSE Before(base_text, marker) \o <<marker>> \o BlankLines \o v \o suffix

\* A variant that writes the description alone
inject_descricao_formula_without_formula(base_text, descricao, formula) ==
    LET marker_desc == "Descricao do Indicador:"
        marker_formula == "Formula:"
    IN  IF descricao = <<>> /\ formula = <<>> THEN base_text
        ELSE IF IndexOf(base_text, marker_desc) = 0 \/ IndexOf(base_text, marker_formula) = 0
        THEN IF descricao /= <<>> THEN <<marker_desc, " ">> \o descricao ELSE <<>>
        ELSE Before(base_text, marker_desc) \o <<marker_desc, "\n">> \o descricao

inject_descricao_formula(base_text, descricao, formula) ==
    LET marker_desc == "Descricao do Indicador:"
        marker_formula == "Formula:"
        parts == (IF descricao /= <<>> THEN <<<<marker_desc, " ">> \o descricao>> ELSE <<>>)
              \o (IF formula /= <<>> THEN <<<<marker_formula, " ">> \o formula>> ELSE <<>>)
        after_desc == After(base_text, marker_desc)
        after_formula == IF IndexOf(after_desc, marker_formula) /= 0
                         THEN After(after_desc, marker_formula) ELSE <<>>
        suffix_idx == IndexOf(after_formula, "O indicador")
        suffix == IF suffix_idx /= 0
                  THEN <<"\n", "\n">> \o Strip(SubSeq(after_formula, suffix_idx,
                                                     Len(after_formula)))
                  ELSE <<>>
    IN  IF descricao = <<>> /\ formula = <<>> THEN base_text
        ELSE IF IndexOf(base_text, marker_desc) = 0 \/ IndexOf(base_text, marker_formula) = 0
        THEN JoinWith(parts, <<"\n", "\n">>)
        ELSE Before(base_text, marker_desc) \o <<marker_desc, "\n">> \o descricao
             \o <<"\n", "\n", marker_formula, "\n">> \o formula \o suffix

\* re.sub(r"^\d+\s*-\s*", "", text)
StripNumberPrefix(text) ==
    LET d == SkipWhile(text, 1, Digits)
        h == SkipWhile(text, d, Ws)
    IN  IF d > 1 /\ h <= Len(text) /\ text[h] = "-"
        THEN SubSeq(text, SkipWhile(text, h + 1, Ws), Len(text))
        ELSE text

\* A variant that keeps the number prefix of the goal text
two_meta_texto_keeping_prefix(i, meta_text_raw) ==
    IF Strip(meta_text_raw) /= <<>>
    THEN IntText(i) \o <<" ", "-", " ">> \o Strip(meta_text_raw)
    ELSE <<>>

\* two_meta_texto: the label of the block of the goal at position i
two_meta_texto(i, meta_text_raw) ==
    LET meta_text == Strip(StripNumberPrefix(meta_text_raw))
    IN  IF meta_text /= <<>> THEN IntText(i) \o <<" ", "-", " ">> \o meta_text ELSE <<>>

\* ws[ref] = v
SetItem(w, pos, v) == SetValue(Touch(w, {pos}), pos, v)

\* A token pair, else the fallback
InjectOr(base_text, token, v, fallback) ==
    IF replace_placeholder_segment(base_text, token, v) = base_text THEN fallback
    ELSE replace_placeholder_segment(base_text, token, v)

\* The document-level cells A8 and F10
InjectDocumentCell(w, pos, token, v) ==
    LET base == ValueOf(w, pos)
        replaced == replace_placeholder_segment(base, token, v)
    IN  IF replaced /= base THEN SetItem(w, pos, replaced)
        ELSE IF v /= <<>> THEN SetItem(w, pos, v)
        ELSE Touch(w, {pos})

\* The body of the last loop of fill_analysis_template: the cells A, E, F, G, H
\* and I of the block of the goal at position i
InjectBlockCells(w, i, section, valor_referencia) ==
    LET row == BlockStartRow(i)
        label == two_meta_texto(i, section.text["meta_texto"])
        wa == SetItem(w, <<row, 1>>, InjectOr(ValueOf(w, <<row, 1>>), "2*", label, label))
        base_e == ValueOf(wa, <<row, 5>>)
        we == SetItem(wa, <<row, 5>>,
                      InjectOr(base_e, "3*", valor_referencia,
                               inject_reference_text(base_e, valor_referencia)))
        base_f == ValueOf(we, <<row, 6>>)
        f_replaced == replace_placeholder_segment(
                          replace_placeholder_segment(base_f, "4*",
                                                      section.text["descricao_indicador"]),
                          "5*", section.text["formula"])
        wf == SetItem(we, <<row, 6>>,
                      IF f_replaced = base_f
                      THEN inject_descricao_formula(base_f, section.text["descricao_indicador"],
                                                    section.text["formula"])
                      ELSE f_replaced)
        base_g == ValueOf(wf, <<row, 7>>)
        wg == SetItem(wf, <<row, 7>>,
                      InjectOr(base_g, "6*", section.text["meta_pesp"],
                               inject_meta_text(base_g, "A Meta informada foi:",
                                                section.text["meta_pesp"])))
        base_h == ValueOf(wg, <<row, 8>>)
        wh == SetItem(wg, <<row, 8>>,
                      InjectOr(base_h, "7*", section.text["meta_pnsp"],
                               inject_meta_text(base_h, "A Meta informada foi:",
                                                section.text["meta_pnsp"])))
        base_i == ValueOf(wh, <<row, 9>>)
    IN  Touch(SetItem(wh, <<row, 9>>,
                      InjectOr(base_i, "8*", section.text["carteira_mjsp"],
                               inject_meta_text(base_i, "A politica informada foi:",
                                                section.text["carteira_mjsp"]))),
              {<<row, c>> : c \in 1..10})

-----------------------------------------------------------------------------
(* fill_analysis_template, after extract_analysis_data *)

Failed(w) == w.error /= ""

\* The cells A8 and F10; without sections the function returns here
FillDocumentCells ==
    /\ pc = "fill"
    /\ ws' = InjectDocumentCell(
                 InjectDocumentCell(ws, <<8, 1>>, "1*", analysis_data.one_meta_geral),
                 <<10, 6>>, "0*", analysis_data.zero_indicador_geral)
    /\ pc' = IF Failed(ws') THEN "error"
             ELSE IF sections = <<>> THEN "items_table" ELSE "ensure_blocks"
    /\ UNCHANGED <<template, lines, idx, itemVars, header_map, rowVars, secVars, curVars, insertVars,
                   appVars>>

\* _ensure_analysis_blocks(ws, len(sections)), for some iteration order of the
\* merged ranges
EnsureAnalysisBlocks ==
    /\ pc = "ensure_blocks"
    /\ \E order \in Orders(ws.ranges) :
           ws' = ensure_analysis_blocks(ws, Len(sections), order)
    /\ IF Len(sections) <= count_analysis_blocks(ws)
       THEN UNCHANGED <<insert_at, rows_to_insert>>
       ELSE /\ insert_at' = EnsureInsertAt(ws)
            /\ rows_to_insert' = EnsureRowsToInsert(ws, Len(sections))
    /\ pc' = IF Failed(ws') THEN "error" ELSE "recopy"
    /\ idx' = 2
    /\ UNCHANGED <<template, lines, itemVars, header_map, rowVars, secVars, curVars, original_ranges,
                   rebuilt, appVars>>

\* One iteration of the loop over the blocks 2..N: the block region is unmerged,
\* in some order of its merged ranges, and copied again from block 1
\* A variant that copies block 1 onto every block of the sheet
RecopyBlock_every_block ==
    /\ pc = "recopy"
    /\ idx <= count_analysis_blocks(ws)
    /\ \E order \in Orders(RegionMerges(ws, BlockStartRow(idx))) :
           ws' = copy_analysis_block(UnmergeAll(ws, order), ANALYSIS_BLOCK_START_ROW,
                                     BlockStartRow(idx))
    /\ pc' = IF Failed(ws') THEN "error" ELSE "recopy"
    /\ idx' = idx + 1
    /\ UNCHANGED <<template, lines, itemVars, header_map, rowVars, secVars, curVars, insertVars, appVars>>

RecopyBlock ==
    /\ pc = "recopy"
    /\ idx <= Len(sections)
    /\ \E order \in Orders(RegionMerges(ws, BlockStartRow(idx))) :
           ws' = copy_analysis_block(UnmergeAll(ws, order), ANALYSIS_BLOCK_START_ROW,
                                     BlockStartRow(idx))
    /\ pc' = IF Failed(ws') THEN "error" ELSE "recopy"
    /\ idx' = idx + 1
    /\ UNCHANGED <<template, lines, itemVars, header_map, rowVars, secVars, curVars, insertVars, appVars>>

RecopyEnd ==
    /\ pc = "recopy"
    /\ idx > Len(sections)
    /\ pc' = "inject"
    /\ idx' = 1
    /\ UNCHANGED <<template, lines, itemVars, header_map, rowVars, secVars, curVars, sheetVars, appVars>>

\* One iteration of the loop over the sections: the cells of the block
\* A variant that copies block 1 onto the next block after each injection
InjectBlock_before_copy ==
    /\ pc = "inject"
    /\ idx <= Len(sections)
    /\ LET injected == InjectBlockCells(ws, idx, sections[idx],
                                        analysis_data.three_valor_referencia)
           next_row == BlockStartRow(idx + 1)
       IN  ws' = IF idx < Len(sections)
                 THEN copy_analysis_block(
                          UnmergeAll(injected, SomeOrder(RegionMerges(injected, next_row))),
                          ANALYSIS_BLOCK_START_ROW, next_row)
                 ELSE injected
    /\ pc' = IF Failed(ws') THEN "error" ELSE "inject"
    /\ idx' = idx + 1
    /\ UNCHANGED <<template, lines, itemVars, header_map, rowVars, secVars, curVars, insertVars, appVars>>

InjectBlock ==
    /\ pc = "inject"
    /\ idx <= Len(sections)
    /\ ws' = InjectBlockCells(ws, idx, sections[idx], analysis_data.three_valor_referencia)
    /\ pc' = IF Failed(ws') THEN "error" ELSE "inject"
    /\ idx' = idx + 1
    /\ UNCHANGED <<template, lines, itemVars, header_map, rowVars, secVars, curVars, insertVars, appVars>>

InjectEnd ==
    /\ pc = "inject"
    /\ idx > Len(sections)
    /\ pc' = "items_table"
    /\ idx' = 1
    /\ UNCHANGED <<template, lines, itemVars, header_map, rowVars, secVars, curVars, sheetVars, appVars>>

-----------------------------------------------------------------------------
(* The item table: update_action_header and fill_worksheet *)

ActionHeaderText(art_num) ==
    <<"Acao conforme Art.", " ">> \o art_num \o <<"ORD", " ", "da portaria n 685">>

\* A variant that takes the article number of the first row before the rule's
update_action_header_preferring_first_row(w, rs, hm, art_pref, hrow) ==
    LET art_num == IF rs[1][ACTION_HEADER_NUM_KEY] /= <<>> THEN rs[1][ACTION_HEADER_NUM_KEY]
                   ELSE art_pref
    IN  IF ACTION_HEADER_KEY \notin DOMAIN hm \/ rs = <<>> THEN w
        ELSE IF art_num = <<>> THEN w
        ELSE IF art_num \notin {<<"6">>, <<"7">>, <<"8">>} THEN w
        ELSE SetItem(w, <<hrow, hm[ACTION_HEADER_KEY]>>, ActionHeaderText(art_num))

update_action_header(w, rs, hm, art_pref, hrow) ==
    LET art_num == IF art_pref /= <<>> THEN art_pref ELSE rs[1][ACTION_HEADER_NUM_KEY]
    IN  IF ACTION_HEADER_KEY \notin DOMAIN hm \/ rs = <<>> THEN w
        ELSE IF art_num = <<>> THEN w
        ELSE IF art_num \notin {<<"6">>, <<"7">>, <<"8">>} THEN w
        ELSE SetItem(w, <<hrow, hm[ACTION_HEADER_KEY]>>, ActionHeaderText(art_num))

\* row_data.get(header, "")
RowGet(row_data, header) == IF header \in DOMAIN row_data THEN row_data[header] ELSE <<>>

\* A variant that leaves the cell as it is when the row has no value for the header
fill_worksheet_skipping_absent_keys(w, rs, hm, start_row) ==
    LET max_col == IF DOMAIN hm /= {} THEN MaxOf({hm[k] : k \in DOMAIN hm})
                   ELSE MaxColumnOf(w)
        cleared == {<<r, c>> : r \in (start_row + Len(rs))..MaxRowOf(w), c \in 1..max_col}
        w1 == SetValues(Touch(w, cleared), [pos \in cleared |-> <<>>])
        written == UNION {{<<start_row + i - 1, hm[k]>> : k \in (DOMAIN hm) \cap DOMAIN rs[i]} :
                          i \in 1..Len(rs)}
    IN  SetValues(Touch(w1, written),
                  [pos \in written |->
                      LET k == CHOOSE h \in DOMAIN hm : hm[h] = pos[2]
                      IN  RowGet(rs[pos[1] - start_row + 1], k)])

fill_worksheet(w, rs, hm, start_row) ==
    LET max_col == IF DOMAIN hm /= {} THEN MaxOf({hm[k] : k \in DOMAIN hm})
                   ELSE MaxColumnOf(w)
        cleared == {<<r, c>> : r \in start_row..MaxRowOf(w), c \in 1..max_col}
        w1 == SetValues(Touch(w, cleared), [pos \in cleared |-> <<>>])
        written == {<<start_row + i - 1, hm[k]>> : i \in 1..Len(rs), k \in DOMAIN hm}
    IN  SetValues(Touch(w1, written),
                  [pos \in written |->
                      LET k == CHOOSE h \in DOMAIN hm : hm[h] = pos[2]
                      IN  RowGet(rs[pos[1] - start_row + 1], k)])

\* generate_excel_bytes / write_excel after fill_analysis_template, or in place
\* of it when the template is not the analysis template, and wb.save
FillItemsTable ==
    /\ pc = "items_table"
    /\ IF is_analysis_template_sheet(ws)
       THEN LET w == ScanColumnA(ws)
                hrow == find_items_table_header_row(w)
                items_header_map == get_header_info_from_ws(w, hrow)
                wh == Touch(w, {<<hrow, c>> : c \in 1..MaxColumnOf(w)})
            IN  /\ excel_header_row' = hrow
                /\ ws' = IF hrow /= 0 /\ rows /= <<>>
                         THEN fill_worksheet(
                                  update_action_header(wh, rows, items_header_map,
                                                       art_num_preferred, hrow),
                                  rows, items_header_map, hrow + 1)
                         ELSE w
       ELSE /\ ws' = fill_worksheet(
                         update_action_header(ws, rows, header_map, art_num_preferred, 2),
                         rows, header_map, 3)
            /\ UNCHANGED excel_header_row
    /\ saved' = IF Failed(ws') THEN saved ELSE <<ws'>>
    /\ pc' = IF Failed(ws') THEN "error" ELSE "report"
    /\ UNCHANGED <<template, lines, idx, itemVars, header_map, rowVars, secVars, curVars, insertVars,
                   art_num_preferred, header_row, missing_cells, signature,
                   surface, files, source, exit_code, messages, result>>

\* app: the cells reported as blank, one per empty value of a row, and the
\* result stored in the session
ReportMissingCells ==
    /\ pc = "report"
    /\ surface = "app"
    /\ LET start_row == IF is_analysis_template_sheet(template)
                        THEN (IF header_row /= 0 THEN header_row + 1 ELSE 3)
                        ELSE 3
       IN  missing_cells' = {<<start_row + i - 1, header_map[k]>> :
                                 <<i, k>> \in {p \in (1..Len(rows)) \X (DOMAIN header_map) :
                                                  RowGet(rows[p[1]], p[2]) = <<>>}}
    /\ result' = IF is_analysis_template_sheet(template) THEN "analysis" ELSE "items"
    /\ pc' = "done"
    /\ UNCHANGED <<template, lines, idx, itemVars, header_map, rowVars, secVars, curVars, sheetVars,
                   art_num_preferred, header_row, excel_header_row, signature,
                   surface, files, source, exit_code, messages, saved>>

-----------------------------------------------------------------------------
(* _insert_rows_preserving_merges called on its own *)

\* Columns of the sheets the function is called on directly, and the amounts
GridCols == {1, 2}
InsertAmounts == {1, 2}

\* _insert_rows_preserving_merges called on a worksheet, for some iteration
\* order of the set ws.merged_cells.ranges
InsertRowsCall ==
    /\ pc = "insert_rows"
    /\ \E at \in 1..(GridRows + 1), n \in InsertAmounts, order \in Orders(ws.ranges) :
         /\ original_ranges' = order
         /\ rebuilt' = Rebuild(<<>>, order, at, n)
         /\ insert_at' = at
         /\ rows_to_insert' = n
         /\ ws' = InsertRowsPreservingMerges(ws, at, n, order)
    /\ pc' = IF ws'.error = "" THEN "inserted" ELSE "error"
    /\ UNCHANGED <<template, lines, idx, itemVars, header_map, rowVars, secVars, curVars, appVars>>

-----------------------------------------------------------------------------
(* CurrencyFormatter called on an input and then on its own output *)

FormatCurrencyCall ==
    /\ pc = "format_currency"
    /\ Len(formatted) < 2
    /\ formatted' = Append(formatted,
                           format_currency(IF formatted = <<>> THEN currency_in
                                           ELSE formatted[Len(formatted)]))
    /\ UNCHANGED <<template, lines, pc, idx, itemVars, header_map, rowVars, secVars, currency_in, sheetVars, appVars>>

-----------------------------------------------------------------------------
(* The run: main() of preencher_planilha.py and the Processar handler of   *)
(* app.py, from the file checks to the outcome                             *)

\* A variant of main() that checks the presence of the PDF only
CheckFilesWithoutTemplateCheck ==
    /\ pc = "start"
    /\ IF surface = "cli"
       THEN IF files.pdf = "absent"
            THEN /\ messages' = Append(messages, <<"PDF nao encontrado">>)
                 /\ exit_code' = 1
                 /\ pc' = "exit"
            ELSE /\ pc' = "extract_lines"
                 /\ UNCHANGED <<messages, exit_code>>
       ELSE IF files.xlsx = "absent"
            THEN /\ messages' = Append(messages, <<"Planilha modelo nao encontrada no servidor.">>)
                 /\ pc' = "stopped"
                 /\ UNCHANGED exit_code
            ELSE /\ pc' = "extract_lines"
                 /\ UNCHANGED <<messages, exit_code>>
    /\ UNCHANGED <<template, lines, idx, itemVars, header_map, rowVars, secVars, curVars, sheetVars,
                   art_num_preferred, header_row, excel_header_row, missing_cells, signature,
                   surface, files, source, result, saved>>

\* main(): SystemExit when the PDF or the template is absent; app: st.error
\* when the template is absent (the button needs an uploaded PDF)
CheckFiles ==
    /\ pc = "start"
    /\ IF surface = "cli"
       THEN IF files.pdf = "absent"
            THEN /\ messages' = Append(messages, <<"PDF nao encontrado">>)
                 /\ exit_code' = 1
                 /\ pc' = "exit"
            ELSE IF files.xlsx = "absent"
            THEN /\ messages' = Append(messages, <<"Planilha nao encontrada">>)
                 /\ exit_code' = 1
                 /\ pc' = "exit"
            ELSE /\ pc' = "extract_lines"
                 /\ UNCHANGED <<messages, exit_code>>
       ELSE IF files.xlsx = "absent"
            THEN /\ messages' = Append(messages, <<"Planilha modelo nao encontrada no servidor.">>)
                 /\ pc' = "stopped"
                 /\ UNCHANGED exit_code
            ELSE /\ pc' = "extract_lines"
                 /\ UNCHANGED <<messages, exit_code>>
    /\ UNCHANGED <<template, lines, idx, itemVars, header_map, rowVars, secVars, curVars, sheetVars,
                   art_num_preferred, header_row, excel_header_row, missing_cells, signature,
                   surface, files, source, result, saved>>

\* extract_lines_from_pdf / extract_lines_from_pdf_file: the lines of the PDF,
\* or the exception pdfplumber raises on a file it cannot read
ExtractLines ==
    /\ pc = "extract_lines"
    /\ IF files.pdf = "ok"
       THEN /\ lines' = source
            /\ pc' = "parse_items"
       ELSE /\ pc' = "error"
            /\ UNCHANGED lines
    /\ UNCHANGED <<template, idx, itemVars, header_map, rowVars, secVars, curVars, sheetVars, appVars>>

\* A variant that leaves the result of an earlier run in the session
NoItemsFoundKeepingResult ==
    /\ pc = "no_items"
    /\ messages' = Append(messages, <<"Nenhum item encontrado no PDF.">>)
    /\ IF surface = "cli"
       THEN /\ exit_code' = 1
            /\ pc' = "exit"
       ELSE /\ pc' = "stopped"
            /\ UNCHANGED exit_code
    /\ UNCHANGED <<template, lines, idx, itemVars, header_map, rowVars, secVars, curVars, sheetVars,
                   art_num_preferred, header_row, excel_header_row, missing_cells, signature,
                   surface, files, source, result, saved>>

\* No items: the app shows the error and stores None as the result, main()
\* ends with SystemExit(message)
NoItemsFound ==
    /\ pc = "no_items"
    /\ messages' = Append(messages, <<"Nenhum item encontrado no PDF.">>)
    /\ IF surface = "cli"
       THEN /\ exit_code' = 1
            /\ pc' = "exit"
            /\ UNCHANGED result
       ELSE /\ result' = ""
            /\ pc' = "stopped"
            /\ UNCHANGED exit_code
    /\ UNCHANGED <<template, lines, idx, itemVars, header_map, rowVars, secVars, curVars, sheetVars,
                   art_num_preferred, header_row, excel_header_row, missing_cells, signature,
                   surface, files, source, saved>>

\* main() after write_excel: the two lines it prints, and the normal exit
PrintSummary ==
    /\ pc = "report"
    /\ surface = "cli"
    /\ messages' = messages \o << <<"Itens extraidos:", " ">> \o IntText(Len(rows)),
                                  <<"Arquivo gerado:">> >>
    /\ exit_code' = 0
    /\ pc' = "exit"
    /\ UNCHANGED <<template, lines, idx, itemVars, header_map, rowVars, secVars, curVars, sheetVars,
                   art_num_preferred, header_row, excel_header_row, missing_cells, signature,
                   surface, files, source, result, saved>>

\* A variant in which the app drops the stored result when a step raises
ExceptionEnd_resetting_result ==
    /\ pc = "error"
    /\ IF surface = "cli"
       THEN /\ messages' = Append(messages, <<"Traceback">>)
            /\ exit_code' = 1
            /\ pc' = "exit"
            /\ UNCHANGED result
       ELSE /\ messages' = Append(messages, <<"exception">>)
            /\ pc' = "stopped"
            /\ result' = ""
            /\ UNCHANGED exit_code
    /\ UNCHANGED <<template, lines, idx, itemVars, header_map, rowVars, secVars, curVars, sheetVars,
                   art_num_preferred, header_row, excel_header_row, missing_cells, signature,
                   surface, files, source, saved>>

\* An exception of a step: the app catches it and shows it, main() does not
\* catch it and the interpreter ends with a traceback and status 1
ExceptionEnd ==
    /\ pc = "error"
    /\ IF surface = "cli"
       THEN /\ messages' = Append(messages, <<"Traceback">>)
            /\ exit_code' = 1
            /\ pc' = "exit"
       ELSE /\ messages' = Append(messages, <<"exception">>)
            /\ pc' = "stopped"
            /\ UNCHANGED exit_code
    /\ UNCHANGED <<template, lines, idx, itemVars, header_map, rowVars, secVars, curVars, sheetVars,
                   art_num_preferred, header_row, excel_header_row, missing_cells, signature,
                   surface, files, source, result, saved>>

\* resolve_art_by_plan_rule called on an acronym and a year
ResolveArtCall ==
    /\ pc = "resolve_art"
    /\ art_num_preferred' = resolve_art_by_plan_rule(signature.sigla, signature.ano)
    /\ pc' = "resolved"
    /\ UNCHANGED <<template, lines, idx, itemVars, header_map, rowVars, secVars, curVars, sheetVars,
                   header_row, excel_header_row, missing_cells, signature, runVars>>

-----------------------------------------------------------------------------
(* Inputs and specifications *)

Meta1 == <<"META ESPECIFICA", " ", "1">>
Meta2 == <<"meta especifica", " ", "2">>
Item1 == <<"Item", " ", "1">>
Item2 == <<"ITEM", "2", " ", "APROVADO">>

\* The function that maps the position of every entry of S to its value
ValuesOf(S) == [pos \in {e.pos : e \in S} |-> (CHOOSE e \in S : e.pos = pos).v]

NoValues == ValuesOf({})

\* A template that is not the analysis template and has no header row: the
\* header map is the one of OUTPUT_HEADERS
PlainTemplate == LoadSheet({}, NoValues)

\* A template that is not the analysis template, with the combined columns
CompactTemplate ==
    LoadSheet({}, ValuesOf({[pos |-> <<2, 1>>, v |-> <<"Numero do Item">>],
                            [pos |-> <<2, 2>>, v |-> <<"Material/Servico">>],
                            [pos |-> <<2, 3>>, v |-> <<"Quantidade/Unidade">>],
                            [pos |-> <<2, 4>>, v |-> <<" ", "Valor/Status">>]}))

\* The cells of the analysis template: the title, the document-level cells, the
\* cells of block 1 and, when title_row is not 0, the title row and the header
\* row of the item table
AnalysisCells(title_row, label) ==
    {[pos |-> <<2, 1>>, v |-> <<"Analise dos Elementos do Plano de Aplicacao">>],
     [pos |-> <<8, 1>>, v |-> <<"1*", "x", "1*">>],
     [pos |-> <<10, 6>>, v |-> <<"x">>],
     [pos |-> <<14, 1>>, v |-> label],
     [pos |-> <<14, 5>>, v |-> <<"3*", "x", "3*">>],
     [pos |-> <<14, 6>>, v |-> <<"Descricao do Indicador:", "x", "Formula:", "y",
                                 "O indicador", "z">>],
     [pos |-> <<14, 7>>, v |-> <<"t", "A Meta informada foi:", "x", "Existe aderencia", "?">>],
     [pos |-> <<14, 9>>, v |-> <<"8*", "8*">>]}
    \cup (IF title_row = 0 THEN {}
          ELSE {[pos |-> <<title_row, 1>>, v |-> <<"Itens de Contratacao">>],
                [pos |-> <<title_row + 1, 1>>, v |-> <<"Numero da Meta Especifica">>],
                [pos |-> <<title_row + 1, 2>>, v |-> <<"Numero do Item">>],
                [pos |-> <<title_row + 1, 3>>, v |-> ActionHeaderText(<<"7">>)],
                [pos |-> <<title_row + 1, 4>>, v |-> <<"Material/Servico">>],
                [pos |-> <<title_row + 1, 5>>, v |-> <<"Valor Planejado Total">>]})

\* The merged range of block 1 in column A
Block1Merge == <<ANALYSIS_BLOCK_START_ROW, ANALYSIS_BLOCK_START_COL,
                 ANALYSIS_BLOCK_START_ROW + ANALYSIS_BLOCK_HEIGHT - 1, ANALYSIS_BLOCK_START_COL>>

AnalysisTemplate(title_row, label, merges) ==
    LoadSheet({Block1Merge} \cup merges, ValuesOf(AnalysisCells(title_row, label)))

PlaceholderLabel == <<"2*", "x", "2*">>
BaseAnalysisTemplate == AnalysisTemplate(26, PlaceholderLabel, {})

\* The state before the first call, apart from the inputs
InitCore ==
    /\ idx = 1
    /\ current_meta = NoneInt
    /\ current_item = NoneInt
    /\ current_status = ""
    /\ current_lines = <<>>
    /\ items = <<>>
    /\ header_map = <<>>
    /\ fields = extract_fields(<<>>)
    /\ rows = <<>>
    /\ analysis_data = [zero_indicador_geral |-> <<>>, one_meta_geral |-> <<>>,
                        three_valor_referencia |-> <<>>]
    /\ current = <<>>
    /\ current_field = ""
    /\ sections = <<>>
    /\ formatted = <<>>
    /\ original_ranges = <<>>
    /\ rebuilt = <<>>
    /\ insert_at = 0
    /\ rows_to_insert = 0
    /\ art_num_preferred = <<>>
    /\ header_row = 0
    /\ excel_header_row = 0
    /\ missing_cells = {}
    /\ exit_code = NoneInt
    /\ messages = <<>>
    /\ saved = <<>>

\* The app after it has read the lines of the PDF, no result stored
InitState ==
    /\ InitCore
    /\ signature = [sigla |-> "", ano |-> 0]
    /\ surface = "app"
    /\ files = [pdf |-> "ok", xlsx |-> "ok"]
    /\ source = lines
    /\ result = ""

NextItems ==
    \/ ParseItemsStep \/ ParseItemsEnd \/ PlanSignature \/ HeaderInfo
    \/ BuildRowsStep \/ BuildRowsEnd
NextAnalysis == ExtractAnalysisData \/ SectionsStep \/ SectionsEnd
NextFill ==
    \/ FillDocumentCells \/ EnsureAnalysisBlocks \/ RecopyBlock \/ RecopyEnd
    \/ InjectBlock \/ InjectEnd \/ FillItemsTable \/ ReportMissingCells

\* parse_items and build_rows on every short input of marker and text lines
ItemsLineSet == {Meta1, Meta2, Item1, Item2, <<"a">>, <<"Item">>}
InitItems ==
    /\ lines \in SeqsUpTo(ItemsLineSet, MaxLines)
    /\ template \in {PlainTemplate, CompactTemplate}
    /\ ws = template
    /\ currency_in = <<>>
    /\ pc = "parse_items"
    /\ InitState
SpecItems == InitItems /\ [][NextItems]_vars

\* extract_analysis_data on every short input of goal markers, narrative labels,
\* text and the lines that end narrative capture
SectionsLineSet == {Meta1, Meta2, <<"a">>, <<"Formula:", " ", "b">>, <<"Status:", " ", "a">>,
                    Item1, <<"Meta do PESP:", "a", " ", "Fonte", ":", "b">>}
InitSections ==
    /\ lines \in SeqsUpTo(SectionsLineSet, MaxLines)
    /\ template = BaseAnalysisTemplate
    /\ ws = template
    /\ currency_in = <<>>
    /\ pc = "analysis_data"
    /\ InitState
SpecSections == InitSections /\ [][NextAnalysis]_vars

\* extract_analysis_data on goals whose narrative texts hold the labels that
\* follow the state-plan target: after a text, after a dash, in another
\* field, on a line of their own, and glued to a letter
TrimLineSet == {Meta1, <<"Meta do PESP:", "a", " ", "Fonte", ":", "b">>,
                <<"Meta do PESP:", "-", " ", "Periodicidade", " ", ":">>,
                <<"Formula:", "b", " ", "Fonte", ":", "a">>,
                <<"Valor de Referencia", ":", "1">>, <<"a", "Fonte", ":">>, <<"a">>}
InitTrim ==
    /\ lines \in SeqsUpTo(TrimLineSet, MaxLines)
    /\ template = BaseAnalysisTemplate
    /\ ws = template
    /\ currency_in = <<>>
    /\ pc = "analysis_data"
    /\ InitState
SpecTrim == InitTrim /\ [][NextAnalysis]_vars

\* The whole text pipeline on inputs whose lines hold dashes
DashLineSet == {Meta1, Item1, <<"-">>, <<"EN_DASH", "EM_DASH", " ">>,
                <<"Valor Total:", " ", "EM_DASH">>, <<"Formula:", "-">>, <<"Meta Geral">>,
                <<"Meta do PESP:", "-", " ", "Fonte", ":", "a">>}
InitDash ==
    /\ lines \in SeqsUpTo(DashLineSet, MaxLines)
    /\ template = BaseAnalysisTemplate
    /\ ws = template
    /\ currency_in = <<>>
    /\ pc = "parse_items"
    /\ InitState
SpecDash == InitDash /\ [][NextItems \/ NextAnalysis]_vars

\* Every label extract_fields recognises, with the field it feeds
LabelPrefixes ==
    {[tokens |-> <<"Bem/Servico:">>, key |-> "bem"],
     [tokens |-> <<"Material/Servico:">>, key |-> "bem"],
     [tokens |-> <<"Descricao:">>, key |-> "descricao"],
     [tokens |-> <<"Destinacao:">>, key |-> "destinacao"],
     [tokens |-> <<"Unidade de Medida:">>, key |-> "unidade"],
     [tokens |-> <<"Qtd. Planejada:">>, key |-> "quantidade"],
     [tokens |-> <<"Quantidade Planejada:">>, key |-> "quantidade"],
     [tokens |-> <<"Natureza (ND):">>, key |-> "natureza"],
     [tokens |-> <<"Instituicao:">>, key |-> "instituicao"],
     [tokens |-> <<"Valor Total:">>, key |-> "valor_total"],
     [tokens |-> <<"Acao:">>, key |-> "acao"],
     [tokens |-> <<"Art.", " ", "6", "ORD", ":">>, key |-> "art"],
     [tokens |-> <<"Art", "7", " ", ":">>, key |-> "art"],
     [tokens |-> <<"Art.", "8", "ORD", " ", "(", "2", ")", ":">>, key |-> "art"]}

MaxBody == 4
BodyChars == {"a", " ", "\t", "-", "EN_DASH"}

\* parse_items and build_rows on one item whose buffer is one labelled line
InitFields ==
    /\ \E p \in LabelPrefixes, body \in SeqsUpTo(BodyChars, MaxBody) :
           lines = <<Meta1, Item1, p.tokens \o body>>
    /\ template = PlainTemplate
    /\ ws = template
    /\ currency_in = <<>>
    /\ pc = "parse_items"
    /\ InitState
SpecFields == InitFields /\ [][NextItems]_vars

\* parse_items and build_rows on one item whose buffer holds labelled lines,
\* stop lines and lines without a label
MaxBuffer == 4
BufferLineSet == {<<"Descricao:", " ", "b">>, <<"Bem/Servico:">>, <<"Acao:", "c">>,
                  <<"Cod. Senasp:", " ", "1">>, <<"x">>, <<"y", " ", "z">>}
InitBuffer ==
    /\ \E buffer \in SeqsUpTo(BufferLineSet, MaxBuffer) : lines = <<Meta1, Item1>> \o buffer
    /\ template = PlainTemplate
    /\ ws = template
    /\ currency_in = <<>>
    /\ pc = "parse_items"
    /\ InitState
SpecBuffer == InitBuffer /\ [][NextItems]_vars

\* parse_items and build_rows on Item marker lines with and without a status
\* word, in every case of letters, and with a word that is no status
StatusLineSet == {Meta1, <<"Item", " ", "1">>, <<"ITEM", "2", " ", "APROVADO">>,
                  <<"Item", "3", "cancelado">>, <<"Item", " ", "4", " ", "pLANEJADO">>,
                  <<"Item", "5", " ", "Cancelado">>, <<"Item", "6", " ", "x">>, <<"a">>}
InitStatus ==
    /\ lines \in SeqsUpTo(StatusLineSet, MaxLines)
    /\ template \in {PlainTemplate, CompactTemplate}
    /\ ws = template
    /\ currency_in = <<>>
    /\ pc = "parse_items"
    /\ InitState
SpecStatus == InitStatus /\ [][NextItems]_vars

MaxValueLen == 4
CurrencyChars == {"R", "$", " ", ".", ",", "0", "1", "5", "-"}

\* format_currency on every short text, then on its own result
InitCurrency ==
    /\ currency_in \in SeqsUpTo(CurrencyChars, MaxValueLen)
    /\ lines = <<>>
    /\ pc = "format_currency"
    /\ template = PlainTemplate
    /\ ws = template
    /\ InitState
SpecCurrency == InitCurrency /\ [][FormatCurrencyCall]_vars

\* _insert_rows_preserving_merges on every sheet of GridRows rows and two columns
\* with at most MaxRanges merged ranges, overlapping ones included
GridRanges == {<<r1, c1, r2, c2>> : r1 \in 1..GridRows, c1 \in GridCols,
                                   r2 \in 1..GridRows, c2 \in GridCols}
GridMerges == {r \in GridRanges : r[1] <= r[3] /\ r[2] <= r[4] /\ TopLeft(r) /= <<r[3], r[4]>>}
InitInsert ==
    /\ \E rs \in SUBSET GridMerges :
           Cardinality(rs) <= MaxRanges /\ template = LoadSheet(rs, NoValues)
    /\ ws = template
    /\ lines = <<>>
    /\ currency_in = <<>>
    /\ pc = "insert_rows"
    /\ InitState
SpecInsert == InitInsert /\ [][InsertRowsCall]_vars

\* The analysis-mode run of the app on templates with one goal block and
\* pairwise disjoint merged ranges, and on documents of at most MaxGoals goals
TitleRows == {0, 26, 30, 38}

\* Merged ranges of a template besides the one of block 1: none; a range inside
\* block 1 and one that crosses the end of block 1 outside the block columns;
\* the last two rows of the gap above the title row; the title row itself; two
\* rows at the start of the gap
MergeChoices(title_row) ==
    {{}, {<<14, 2, 14, 4>>, <<20, 11, 30, 11>>}}
    \cup (IF title_row >= 28 THEN {{<<title_row - 3, 1, title_row - 2, 1>>},
                                   {<<26, 2, 27, 2>>}}
          ELSE {})
    \cup (IF title_row /= 0 THEN {{<<title_row, 1, title_row, 10>>}} ELSE {})

LabelChoices == {PlaceholderLabel, <<>>, <<"Meta", ":", " ", "2*", "x", "2*">>}

AnalysisTemplates ==
    {AnalysisTemplate(t, PlaceholderLabel, m) : t \in TitleRows, m \in MergeChoices(26)}
    \cup UNION {{AnalysisTemplate(t, PlaceholderLabel, m) : m \in MergeChoices(t)} :
                   t \in TitleRows}
    \cup {AnalysisTemplate(t, l, {}) : t \in TitleRows, l \in LabelChoices}

\* The lines of one goal: a goal text with a number prefix; no text at all (and
\* the number of the goal before); a text, a narrative label and an item
GoalChunks ==
    {<<Meta1, <<"1", " ", "-", " ", "a">>>>,
     <<Meta1>>,
     <<Meta2, <<"b">>, <<"Formula:", " ", "b">>, Item1, <<"Valor Total:", " ", "1">>>>}

RECURSIVE Flatten(_)
Flatten(chunks) == IF chunks = <<>> THEN <<>> ELSE Head(chunks) \o Flatten(Tail(chunks))

MaxGoals == 3

InitFill ==
    /\ \E chunks \in SeqsUpTo(GoalChunks, MaxGoals) : lines = Flatten(chunks)
    /\ template \in AnalysisTemplates
    /\ ws = template
    /\ currency_in = <<>>
    /\ pc = "parse_items"
    /\ InitState
SpecFill == InitFill /\ [][NextItems \/ NextAnalysis \/ NextFill]_vars

\* The analysis-mode run on templates with one or two goal blocks whose title
\* row is absent, above the blocks, next to the insertion point or further down
Block2Merge == <<BlockStartRow(2), ANALYSIS_BLOCK_START_COL,
                 BlockStartRow(3) - 1, ANALYSIS_BLOCK_START_COL>>
EnsureTitleRows == {0, 12, 25, 26, 30, 36, 37, 40, 50}
EnsureTemplates ==
    {AnalysisTemplate(t, PlaceholderLabel, m) : t \in EnsureTitleRows, m \in {{}, {Block2Merge}}}
InitEnsure ==
    /\ \E chunks \in SeqsUpTo(GoalChunks, MaxGoals) : lines = Flatten(chunks)
    /\ template \in EnsureTemplates
    /\ ws = template
    /\ currency_in = <<>>
    /\ pc = "parse_items"
    /\ InitState
SpecEnsure == InitEnsure /\ [][NextItems \/ NextAnalysis \/ NextFill]_vars

\* Flat templates with a header row and values of an earlier fill: a column
\* without a header between two headers and a column right of the last header;
\* a description column without a destination column; every text column, a
\* header no row has a value for, and the action header
GapTemplate ==
    LoadSheet({}, ValuesOf({[pos |-> <<2, 1>>, v |-> <<"Numero do Item">>],
                            [pos |-> <<2, 3>>, v |-> <<"Material/Servico">>],
                            [pos |-> <<3, 1>>, v |-> <<"old">>],
                            [pos |-> <<3, 2>>, v |-> <<"note">>],
                            [pos |-> <<4, 2>>, v |-> <<"note">>],
                            [pos |-> <<5, 3>>, v |-> <<"old">>],
                            [pos |-> <<4, 5>>, v |-> <<"side">>]}))
DescriptionOnlyTemplate ==
    LoadSheet({}, ValuesOf({[pos |-> <<2, 1>>, v |-> <<"Material/Servico">>],
                            [pos |-> <<2, 2>>, v |-> <<"Descricao">>],
                            [pos |-> <<4, 1>>, v |-> <<"old">>]}))
FullTemplate ==
    LoadSheet({}, ValuesOf({[pos |-> <<2, 1>>, v |-> <<"Material/Servico">>],
                            [pos |-> <<2, 2>>, v |-> <<"Descricao">>],
                            [pos |-> <<2, 3>>, v |-> <<"Destinacao">>],
                            [pos |-> <<2, 4>>, v |-> <<"Observacao">>],
                            [pos |-> <<2, 5>>, v |-> <<"Acao conforme Art.", " ", "6", "ORD",
                                                       " ", "da portaria n 685">>],
                            [pos |-> <<3, 4>>, v |-> <<"old">>],
                            [pos |-> <<5, 1>>, v |-> <<"old">>]}))
TableTemplates ==
    {PlainTemplate, CompactTemplate, GapTemplate, DescriptionOnlyTemplate, FullTemplate}

\* Plans of one or two items: without fields; with material, description and
\* destination in any combination; with an article line, alone, under a
\* signature line of the rule table, and on the second item only
SignatureLine(sigla, year) == <<"BR", " ", "-", " ", sigla, " ", "-", " ", year>>
ArtLine(n) == <<"Art.", " ", n, "ORD", ":", " ", "x">>
TextLines ==
    {<<>>, << <<"Bem/Servico:", " ", "m">> >>, << <<"Descricao:", " ", "d">> >>,
     << <<"Destinacao:", " ", "t">> >>,
     << <<"Bem/Servico:", " ", "m">>, <<"Destinacao:", " ", "t">> >>,
     << <<"Bem/Servico:", " ", "m">>, <<"Descricao:", " ", "d">>, <<"Destinacao:", " ", "t">> >>}
TableSources ==
    {<<Meta1, Item1>> \o ls : ls \in TextLines}
    \cup {<<Meta1, Item1, ArtLine("7"), Item2, <<"Valor Total:", " ", "1">>>>,
          <<SignatureLine("ECV", "2021"), Meta1, Item1, ArtLine("7")>>,
          <<SignatureLine("EVM", "2018"), Meta1, Item1, <<"Bem/Servico:", " ", "m">>>>,
          <<Meta1, Item1, Meta2, Item2, ArtLine("8")>>}
InitTable ==
    /\ lines \in TableSources
    /\ template \in TableTemplates
    /\ ws = template
    /\ currency_in = <<>>
    /\ pc = "parse_items"
    /\ InitState
NextTable == NextItems \/ FillItemsTable \/ ReportMissingCells
SpecTable == InitTable /\ [][NextTable]_vars

\* update_action_header called once on a template of the item table, with no
\* row, one row or two rows, each with an article number ART_PATTERN can capture
\* (none, 6, 7, 8), and with a preferred number that is None, in the set (6, 8)
\* or outside it (9)
MaxHeaderRows == 2
HeaderArticleLines == {<<>>, <<ArtLine("6")>>, <<ArtLine("7")>>, <<ArtLine("8")>>}
HeaderPreferred == {<<>>, <<"6">>, <<"8">>, <<"9">>}
HeaderTemplates == {FullTemplate, DescriptionOnlyTemplate}
HeaderRow(ls, hm) ==
    BuildRow([meta |-> 1, item |-> 1, status |-> "", lines |-> ls], extract_fields(ls), hm)

UpdateHeaderCall ==
    /\ pc = "update_action_header"
    /\ ws' = update_action_header(ws, rows, header_map, art_num_preferred, 2)
    /\ pc' = "header_updated"
    /\ UNCHANGED <<template, lines, idx, itemVars, header_map, rowVars, secVars, curVars,
                   insertVars, appVars>>

InitHeader ==
    /\ template \in HeaderTemplates
    /\ ws = template
    /\ header_map = get_header_info_from_ws(template, 2)
    /\ \E ls \in SeqsUpTo(HeaderArticleLines, MaxHeaderRows) :
          rows = [i \in 1..Len(ls) |-> HeaderRow(ls[i], header_map)]
    /\ art_num_preferred \in HeaderPreferred
    /\ pc = "update_action_header"
    /\ lines = <<>>
    /\ idx = 1
    /\ current_meta = NoneInt
    /\ current_item = NoneInt
    /\ current_status = ""
    /\ current_lines = <<>>
    /\ items = <<>>
    /\ fields = extract_fields(<<>>)
    /\ analysis_data = [zero_indicador_geral |-> <<>>, one_meta_geral |-> <<>>,
                        three_valor_referencia |-> <<>>]
    /\ current = <<>>
    /\ current_field = ""
    /\ sections = <<>>
    /\ currency_in = <<>>
    /\ formatted = <<>>
    /\ original_ranges = <<>>
    /\ rebuilt = <<>>
    /\ insert_at = 0
    /\ rows_to_insert = 0
    /\ header_row = 2
    /\ excel_header_row = 0
    /\ missing_cells = {}
    /\ signature = [sigla |-> "", ano |-> 0]
    /\ surface = "app"
    /\ files = [pdf |-> "ok", xlsx |-> "ok"]
    /\ source = lines
    /\ exit_code = NoneInt
    /\ messages = <<>>
    /\ result = ""
    /\ saved = <<>>
SpecHeader == InitHeader /\ [][UpdateHeaderCall]_vars

\* The analysis-mode run on templates whose block cells E, G, H and I hold a
\* token pair, the marker phrase with and without the later anchor phrase, a
\* text with neither, nothing, or a pair and a marker, and whose cell F holds
\* both token pairs, the pair 4* or 5* alone, both marker phrases, one of them,
\* or neither; on goals with none, one or all of the narrative texts, with and
\* without a reference value, with a text that is itself a token pair, and on
\* two goals, once with an item and once with two values of the same text
InjectKinds == {"pair", "anchor", "marker", "plain", "empty", "both"}
InjectFKinds == {"pairs", "pair4", "pair5", "markers", "marker_desc", "plain"}
InjectBase(kind, token, marker) ==
    CASE kind = "pair" -> <<"a", token, "x", token, "b">>
      [] kind = "anchor" -> <<"t", marker, "x", "Existe aderencia", "?">>
      [] kind = "marker" -> <<"t", marker, "x">>
      [] kind = "plain" -> <<"x">>
      [] kind = "empty" -> <<>>
      [] kind = "both" -> <<token, "x", token, marker, "y", "Existe aderencia", "?">>
InjectFBase(kind) ==
    CASE kind = "pairs" -> <<"4*", "x", "4*", "\n", "5*", "y", "5*">>
      [] kind = "pair4" -> <<"D", ":", " ", "4*", "x", "4*">>
      [] kind = "pair5" -> <<"5*", "y", "5*">>
      [] kind = "markers" -> <<"Descricao do Indicador:", "x", "Formula:", "y",
                               "O indicador", "z">>
      [] kind = "marker_desc" -> <<"Descricao do Indicador:", "x">>
      [] kind = "plain" -> <<"x">>
InjectTemplate(kind, fkind) ==
    LoadSheet({Block1Merge},
              ValuesOf({e \in AnalysisCells(26, PlaceholderLabel) :
                            e.pos[1] /= ANALYSIS_BLOCK_START_ROW \/ e.pos[2] = 1}
                       \cup {[pos |-> <<14, 5>>,
                              v |-> InjectBase(kind, "3*", "A referencia informada foi:")],
                             [pos |-> <<14, 6>>, v |-> InjectFBase(fkind)],
                             [pos |-> <<14, 7>>,
                              v |-> InjectBase(kind, "6*", "A Meta informada foi:")],
                             [pos |-> <<14, 8>>,
                              v |-> InjectBase(kind, "7*", "A Meta informada foi:")],
                             [pos |-> <<14, 9>>,
                              v |-> InjectBase(kind, "8*", "A politica informada foi:")]}))
InjectTemplates == {InjectTemplate(k, fk) : k \in InjectKinds, fk \in InjectFKinds}

NarrativeLines ==
    << <<"Descricao do Indicador:", "d">>, <<"Formula:", "f">>, <<"Meta do PESP:", "p">>,
       <<"Meta do PNSP:", "n">>, <<"Carteira de Politicas do MJSP:", "c">> >>
ReferenceLine == <<"Valor de Referencia", ":", "9">>
InjectGoals ==
    {<<Meta1>>, <<Meta1>> \o NarrativeLines,
     <<Meta1, <<"Meta do PESP:", "6*", "x", "6*">>>>,
     <<Meta1, <<"Formula:", "f">>, Meta2, <<"Meta do PNSP:", "n">>, Item1,
       <<"Valor Total:", " ", "1">>>>,
     <<Meta1, <<"Meta do PESP:", "p">>, Meta2, <<"Meta do PESP:", "q">>,
       <<"Descricao do Indicador:", "d">>>>}
    \cup {<<Meta1, NarrativeLines[k]>> : k \in 1..Len(NarrativeLines)}
InjectSources == InjectGoals \cup {<<ReferenceLine>> \o g : g \in InjectGoals}
InitInject ==
    /\ lines \in InjectSources
    /\ template \in InjectTemplates
    /\ ws = template
    /\ currency_in = <<>>
    /\ pc = "parse_items"
    /\ InitState
SpecInject == InitInject /\ [][NextItems \/ NextAnalysis \/ NextFill]_vars

\* The analysis-mode run on templates that hold two or three blocks, the
\* later blocks with texts and merged ranges of their own, and on documents
\* of no goal up to MaxGoals goals
Block3Merge == <<BlockStartRow(3), ANALYSIS_BLOCK_START_COL,
                 BlockStartRow(4) - 1, ANALYSIS_BLOCK_START_COL>>
SpareCells(b) ==
    {[pos |-> <<BlockStartRow(b), 1>>, v |-> <<"2*", "y", "2*">>],
     [pos |-> <<BlockStartRow(b), 5>>, v |-> <<"kept", " ", IntText(b)>>],
     [pos |-> <<BlockStartRow(b), 7>>, v |-> <<"6*", "y", "6*">>],
     [pos |-> <<BlockStartRow(b) + 3, 2>>, v |-> <<"note">>]}
SpareTemplate(title_row, blocks) ==
    LoadSheet({Block1Merge, Block2Merge, <<BlockStartRow(2) + 3, 2, BlockStartRow(2) + 4, 3>>}
                  \cup (IF blocks = 3
                        THEN {Block3Merge, <<BlockStartRow(3), 2, BlockStartRow(3), 4>>}
                        ELSE {}),
              ValuesOf(AnalysisCells(title_row, PlaceholderLabel) \cup SpareCells(2)
                           \cup (IF blocks = 3 THEN SpareCells(3) ELSE {})))
SpareTemplates == {SpareTemplate(t, b) : t \in {0, 50}, b \in {2, 3}}
InitSpare ==
    /\ \E chunks \in SeqsUpTo(GoalChunks, MaxGoals) : lines = Flatten(chunks)
    /\ template \in SpareTemplates
    /\ ws = template
    /\ currency_in = <<>>
    /\ pc = "parse_items"
    /\ InitState
SpecSpare == InitSpare /\ [][NextItems \/ NextAnalysis \/ NextFill]_vars

\* resolve_art_by_plan_rule on every acronym and year of the rule table, on
\* their neighbours and on None
RuleSiglas == {"", "ECV", "ecv", "FISPDS", "RMVI", "EVM", "evm", "VPSP", "vpsp", "MQVPSP", "XYZ"}
RuleYears == {0, 2018, 2019, 2021, 2022, 2023, 2025, 2026}
InitResolve ==
    /\ \E sg \in RuleSiglas, y \in RuleYears : signature = [sigla |-> sg, ano |-> y]
    /\ lines = <<>>
    /\ template = PlainTemplate
    /\ ws = template
    /\ currency_in = <<>>
    /\ pc = "resolve_art"
    /\ surface = "app"
    /\ files = [pdf |-> "ok", xlsx |-> "ok"]
    /\ source = lines
    /\ result = ""
    /\ InitCore
SpecResolve ==
    InitResolve /\ [][ResolveArtCall]_vars

\* The lines of a plan with one goal and one item: the signature line, the goal
\* marker, the item marker with its status, the material and the total value
FlatScenario(sigla, year, status) ==
    << <<"BR", " ", "-", " ", sigla, " ", "-", " ", year>>,
       Meta1,
       Item1 \o status,
       <<"Bem/Servico:", " ", "Desk">>,
       <<"Valor Total:", " ", "R", "$", " ", "1", ".", "2", "3", "4", ",", "5", "0">> >>

\* The documents of the runs: the empty one, the plans of one item, an item
\* without a goal, and two goals with an item
RunSources ==
    {<<>>, <<Item1>>, <<Meta1, <<"a">>, Meta2, Item1>>}
    \cup {FlatScenario(sg, y, st) : sg \in {"ECV", "EVM", "XYZ"}, y \in {"2018", "2021"},
                                    st \in {<<" ", "Planejado">>, <<" ", "APROVADO">>, <<>>}}

\* The templates of the runs: two flat ones, the analysis template, and the
\* analysis template with a merged range in the gap under block 1
RunTemplates ==
    {PlainTemplate, CompactTemplate, BaseAnalysisTemplate,
     AnalysisTemplate(30, PlaceholderLabel, {<<26, 2, 27, 2>>})}

\* A run of main() or of the Processar handler, from the file checks on; the
\* session of the app may hold the result of an earlier run
InitRun ==
    /\ InitCore
    /\ signature = [sigla |-> "", ano |-> 0]
    /\ surface \in {"app", "cli"}
    /\ files \in [pdf : {"absent", "corrupt", "ok"}, xlsx : {"absent", "ok"}]
    /\ surface = "app" => files.pdf /= "absent"
    /\ source \in RunSources
    /\ template \in RunTemplates
    /\ ws = template
    /\ result \in (IF surface = "app" THEN {"", "items"} ELSE {""})
    /\ lines = <<>>
    /\ currency_in = <<>>
    /\ pc = "start"
NextRun ==
    \/ CheckFiles \/ ExtractLines \/ NoItemsFound \/ PrintSummary \/ ExceptionEnd
    \/ NextItems \/ NextAnalysis \/ NextFill
SpecRun == InitRun /\ [][NextRun]_vars

-----------------------------------------------------------------------------
(* Claims about parse_items *)

ParseItemsDone == pc /= "parse_items"

RECURSIVE ItemMarkersAfterGoal(_, _)
\* Number of Item marker lines of ls that follow a Goal marker line
\* (seen: a Goal marker precedes ls)
ItemMarkersAfterGoal(ls, seen) ==
    IF ls = <<>> THEN 0
    ELSE IF META_RE(Head(ls)) THEN ItemMarkersAfterGoal(Tail(ls), TRUE)
    ELSE IF ITEM_RE(Head(ls)) /\ seen THEN 1 + ItemMarkersAfterGoal(Tail(ls), seen)
    ELSE ItemMarkersAfterGoal(Tail(ls), seen)

\* C1: parse_items emits exactly as many items as there are Item marker lines
\* after at least one Goal marker line; an Item marker that precedes the first
\* Goal marker is never emitted.
C1_ItemsOnlyAfterGoal ==
    ParseItemsDone => Len(items) = ItemMarkersAfterGoal(lines, FALSE)

-----------------------------------------------------------------------------
(* Claims about the goal blocks of the filled sheet *)

\* fill_analysis_template has returned with at least one section
FilledWithGoals == pc \in {"items_table", "report", "done"} /\ Len(sections) >= 1

\* The merged ranges of one column A cell by eleven rows
ColumnABlocks(w) == {r \in w.ranges : r[2] = 1 /\ r[4] = 1 /\ r[3] - r[1] + 1 = 11}

NoOverlap(ranges) ==
    \A a, b \in ranges : a /= b => CellsOf(a) \cap CellsOf(b) = {}

C3_NoOverlapAfterFill ==
    FilledWithGoals => NoOverlap(ws.ranges)

StartsWith(text, prefix) ==
    Len(text) >= Len(prefix) /\ SubSeq(text, 1, Len(prefix)) = prefix

LabelCell(w, k) == ValueOf(w, <<14 + (k - 1) * 11, 1>>)

GoalTextOf(raw) == IF raw = <<"1", " ", "-", " ", "a">> THEN <<"a">> ELSE raw

\* The text of the template's label cell around its 2* ... 2* placeholder; the
\* whole cell is replaced when there is no placeholder
LabelBefore == IF IndexOf(ValueOf(template, <<14, 1>>), "2*") = 0 THEN <<>>
               ELSE Before(ValueOf(template, <<14, 1>>), "2*")

-----------------------------------------------------------------------------
(* Claims about the missing-cell report of the app *)

\* C6: in the analysis mode every reported missing cell of the item table is the
\* cell of the filled sheet where the empty value of that item was written: its
\* row is the header row of the filled sheet + 1 + the index of the item.
C6_ReportedCellsAreWrittenCells ==
    (pc = "done" /\ is_analysis_template_sheet(template)) =>
        missing_cells =
            {<<excel_header_row + i, header_map[k]>> :
                <<i, k>> \in {p \in (1..Len(rows)) \X (DOMAIN header_map) :
                                 RowGet(rows[p[1]], p[2]) = <<>>}}

-----------------------------------------------------------------------------
(* Claims about extract_meta_especifica_sections *)

RECURSIVE GoalIndexes(_, _)
\* The indexes of the Goal marker lines of ls, in order (i: index of Head(ls))
GoalIndexes(ls, i) ==
    IF ls = <<>> THEN <<>>
    ELSE (IF META_RE(Head(ls)) THEN <<i>> ELSE <<>>) \o GoalIndexes(Tail(ls), i + 1)

SectionsDone == pc \notin {"analysis_data", "sections"}

\* C5: extract_meta_especifica_sections returns one section per Goal marker
\* line, in source order, also when two markers carry the same number; a marker
\* that no narrative line follows yields a section with six empty fields.
C5_OneSectionPerGoalMarker ==
    SectionsDone =>
        LET g == GoalIndexes(lines, 1)
        IN  /\ Len(sections) = Len(g)
            /\ \A k \in 1..Len(g) :
                  /\ sections[k].numero_meta = MetaNumber(lines[g[k]])
                  /\ (g[k] = Len(lines) \/ META_RE(lines[g[k] + 1])) =>
                        \A f \in SectionKeys : sections[k].text[f] = <<>>

\* Two markers with the same number, the first with text and the second with none
C5_Witness ==
    /\ SectionsDone
    /\ Len(sections) = 2
    /\ sections[1].numero_meta = sections[2].numero_meta
    /\ sections[1].text["meta_texto"] /= <<>>
    /\ \A f \in SectionKeys : sections[2].text[f] = <<>>

-----------------------------------------------------------------------------
(* Claims about format_currency *)

\* C8: format_currency applied to its own non-empty result returns that result.
C8_FormatIdempotent ==
    (Len(formatted) = 2 /\ formatted[1] /= <<>>) => formatted[2] = formatted[1]

\* An amount of four digits, grouped, formatted twice
C8_Witness ==
    /\ Len(formatted) = 2
    /\ currency_in = <<"1", "5", "0", "0">>
    /\ formatted[1] = <<"R", "$", " ", "1", ".", "5", "0", "0", ",", "0", "0">>
    /\ formatted[2] = formatted[1]

-----------------------------------------------------------------------------
(* Claims about dash-only text and extract_fields *)

\* C9: no narrative field of a section, no document-level narrative text and no
\* field extract_fields returns is a run of dashes: such text becomes empty.
C9_NoDashOnlyText ==
    /\ \A k \in DOMAIN fields : ~IsDashRun(fields[k])
    /\ \A i \in 1..Len(sections) : \A f \in SectionKeys : ~IsDashRun(sections[i].text[f])
    /\ ~IsDashRun(analysis_data.zero_indicador_geral)
    /\ ~IsDashRun(analysis_data.one_meta_geral)
    /\ ~IsDashRun(analysis_data.three_valor_referencia)

\* A goal whose formula is a dash and an item whose total value is an em dash
C9_Witness ==
    /\ pc = "fill"
    /\ lines = <<Meta1, <<"Formula:", "-">>, Item1, <<"Valor Total:", " ", "EM_DASH">>>>
    /\ sections[1].text["formula"] = <<>>
    /\ fields["valor_total"] = <<>>

\* The label of the one labelled line of the input and the text after it
LabelOf(line) == CHOOSE p \in LabelPrefixes : StartsWith(line, p.tokens)
BodyOf(line) == SubSeq(line, Len(LabelOf(line).tokens) + 1, Len(line))

OneLabelledLine == Len(rows) = 1 /\ Len(lines) = 3

\* C10 as stated: extract_fields on one labelled line yields, in the field of
\* the label, the text after the label with whitespace collapsed, and every other
\* text field empty.
C10_FieldIsCollapsedBody ==
    OneLabelledLine =>
        /\ fields[LabelOf(lines[3]).key] = normalize(BodyOf(lines[3]))
        /\ \A k \in FieldKeys \ {LabelOf(lines[3]).key} : fields[k] = <<>>

\* C10, amended: the field of the label holds the text after the label with
\* whitespace collapsed, or is empty when that text is a run of dashes; every
\* other text field is empty.
C10_FieldIsCollapsedBodyOrBlank ==
    OneLabelledLine =>
        /\ fields[LabelOf(lines[3]).key] =
              (IF IsDashRun(normalize(BodyOf(lines[3]))) THEN <<>>
               ELSE normalize(BodyOf(lines[3])))
        /\ \A k \in FieldKeys \ {LabelOf(lines[3]).key} : fields[k] = <<>>

\* A labelled line whose body has blanks to strip and to collapse
C10_Witness ==
    /\ OneLabelledLine
    /\ lines[3] = <<"Valor Total:", "a", "\t", " ", "a">>
    /\ fields["valor_total"] = <<"a", " ", "a">>

-----------------------------------------------------------------------------
(* Claims about _insert_rows_preserving_merges *)

\* C7: after _insert_rows_preserving_merges with amount > 0 the merged ranges of
\* the sheet, rebuilt from any original set (overlapping ones included), are
\* pairwise non-overlapping.
C7_RebuiltNoOverlap ==
    pc = "inserted" =>
        /\ NoOverlap(ws.ranges)
        /\ ws.ranges = {rebuilt[i] : i \in 1..Len(rebuilt)}

\* An insertion into a sheet whose original ranges overlapped, one of them
\* discarded by the overlap rule
C7_Witness ==
    /\ pc = "inserted"
    /\ rows_to_insert > 0
    /\ ~NoOverlap({original_ranges[i] : i \in 1..Len(original_ranges)})
    /\ \E i \in 1..Len(original_ranges) :
          /\ original_ranges[i][1] >= insert_at
          /\ <<original_ranges[i][1] + rows_to_insert, original_ranges[i][2],
               original_ranges[i][3] + rows_to_insert, original_ranges[i][4]>> \notin ws.ranges
    /\ ws.ranges /= {}

-----------------------------------------------------------------------------
(* Claims about whole runs *)

\* The run has produced its rows and ended without an error
RunCompleted == pc = "done" \/ (pc = "exit" /\ exit_code = 0)

FlatTemplate == ~is_analysis_template_sheet(template)

Contains(text, tok) == \E i \in 1..Len(text) : text[i] = tok

\* C11: on a flat template the lines "BR - ECV - 2021", goal marker 1, item
\* marker 1 with status Planejado, a material line "Desk" and a total value line
\* "R$ 1.234,50" give exactly one row with goal 1, item 1, status Planejado, a
\* material that contains Desk and the total value R$ 1.234,50, and the
\* article number resolved from the signature is 6.
C11_FlatScenarioRow ==
    (RunCompleted /\ FlatTemplate
     /\ source = FlatScenario("ECV", "2021", <<" ", "Planejado">>)) =>
        /\ Len(rows) = 1
        /\ rows[1]["Numero da Meta Especifica"] = <<"1">>
        /\ rows[1]["Numero do Item"] = <<"1">>
        /\ rows[1]["Status do Item"] = <<"Planejado">>
        /\ Contains(rows[1]["Material/Servico"], "Desk")
        /\ rows[1]["Valor Planejado Total"] =
               <<"R", "$", " ", "1", ".", "2", "3", "4", ",", "5", "0">>
        /\ art_num_preferred = <<"6">>

\* The scenario run to its end in the app, on the template without a header row
C11_Witness ==
    /\ pc = "done"
    /\ template = PlainTemplate
    /\ source = FlatScenario("ECV", "2021", <<" ", "Planejado">>)
    /\ Len(rows) = 1
    /\ rows[1]["Material/Servico"] = <<"Desk">>
    /\ art_num_preferred = <<"6">>
    /\ saved /= <<>>

FilesPresent == files = [pdf |-> "ok", xlsx |-> "ok"]

RunEnded == pc \in {"done", "stopped", "exit"}

\* C12: a document without lines gives no items and no goal sections; on a flat
\* template the run then ends with the no-items error (the app shows it and
\* stores no result, main() exits with a non-zero status) and no step after
\* parse_items runs, so that no workbook is written.
C12_EmptyInputNoItems ==
    (FilesPresent /\ source = <<>>) =>
        /\ items = <<>>
        /\ sections = <<>>
        /\ FlatTemplate =>
              /\ pc \in {"start", "extract_lines", "parse_items", "no_items", "stopped", "exit"}
              /\ saved = <<>>
              /\ RunEnded =>
                    /\ messages = << <<"Nenhum item encontrado no PDF.">> >>
                    /\ surface = "app" => (pc = "stopped" /\ result = "")
                    /\ surface = "cli" => (pc = "exit" /\ exit_code /= 0)

\* The app at the end of a run on an empty document and a flat template
C12_Witness ==
    /\ FilesPresent
    /\ source = <<>>
    /\ FlatTemplate
    /\ surface = "app"
    /\ pc = "stopped"
    /\ messages = << <<"Nenhum item encontrado no PDF.">> >>
    /\ result = ""

-----------------------------------------------------------------------------
(* Claims about resolve_art_by_plan_rule *)

Resolved == pc = "resolved"

InYears(ano, first, last) == first <= ano /\ ano <= last

-----------------------------------------------------------------------------
(* Claims about the ranges _insert_rows_preserving_merges rebuilds *)

InsertReturned == pc = "inserted"

OriginalSet == {original_ranges[i] : i \in 1..Len(original_ranges)}

IsAbove(rng) == rng[3] < insert_at
IsBelow(rng) == rng[1] >= insert_at
Straddles(rng) == rng[1] < insert_at /\ insert_at <= rng[3]

Shifted(rng) == <<rng[1] + rows_to_insert, rng[2], rng[3] + rows_to_insert, rng[4]>>
PrePart(rng) == <<rng[1], rng[2], insert_at - 1, rng[4]>>
PostPart(rng) == <<insert_at + rows_to_insert, rng[2], rng[3] + rows_to_insert, rng[4]>>

MoreThanOneCell(rng) == Cardinality(CellsOf(rng)) > 1

\* The ranges the function proposes for one original range, in order
CandidatesOf(rng) ==
    IF IsAbove(rng) THEN <<rng>>
    ELSE IF IsBelow(rng) THEN <<Shifted(rng)>>
    ELSE <<PrePart(rng), PostPart(rng)>>

RECURSIVE Candidates(_)
Candidates(order) ==
    IF order = <<>> THEN <<>> ELSE CandidatesOf(Head(order)) \o Candidates(Tail(order))

\* The candidates at the positions kept, in order
RECURSIVE Restrict(_, _, _)
Restrict(cands, kept, i) ==
    IF i > Len(cands) THEN <<>>
    ELSE (IF i \in kept THEN <<cands[i]>> ELSE <<>>) \o Restrict(cands, kept, i + 1)

\* First-inserted wins: a position is kept iff its candidate has more than one
\* cell and shares no cell with a candidate kept before it
FirstWins(cands, kept) ==
    \A i \in 1..Len(cands) :
        i \in kept <=>
            /\ MoreThanOneCell(cands[i])
            /\ \A j \in kept : j < i => CellsOf(cands[j]) \cap CellsOf(cands[i]) = {}

\* C15 as stated: with amount > 0 every original range above insert_at is kept
\* unchanged, every original range at or below it is kept shifted down by
\* amount, and a straddling range is replaced by its pre-part and post-part,
\* each part added only if it has more than one cell and overlaps no range
\* already rebuilt.
C15_KeptShiftedSplit ==
    InsertReturned =>
        \A rng \in OriginalSet :
            /\ IsAbove(rng) => rng \in ws.ranges
            /\ IsBelow(rng) => Shifted(rng) \in ws.ranges
            /\ Straddles(rng) =>
                  /\ PrePart(rng) \in ws.ranges => MoreThanOneCell(PrePart(rng))
                  /\ PostPart(rng) \in ws.ranges => MoreThanOneCell(PostPart(rng))

\* C15, amended: the unchanged range, the shifted range, the pre-part and the
\* post-part are candidates, proposed in the order of the original ranges, and
\* every candidate, not only the parts of a split, is added iff it has more
\* than one cell and overlaps no candidate added before it; the merged ranges
\* of the sheet after the call are the candidates added.
C15_CandidatesFirstWins ==
    pc \in {"inserted", "error"} =>
        LET cands == Candidates(original_ranges)
        IN  /\ \E kept \in SUBSET (1..Len(cands)) :
                  /\ FirstWins(cands, kept)
                  /\ rebuilt = Restrict(cands, kept, 1)
            /\ InsertReturned => ws.ranges = {rebuilt[i] : i \in 1..Len(rebuilt)}

\* A range above, a range below and a straddling range whose pre-part is one
\* cell: kept, shifted, and split with only the post-part added
C15_Witness ==
    /\ InsertReturned
    /\ \E a, b \in OriginalSet :
          /\ IsAbove(a) /\ a \in ws.ranges
          /\ Straddles(b)
          /\ ~MoreThanOneCell(PrePart(b)) /\ PrePart(b) \notin ws.ranges
          /\ PostPart(b) \in ws.ranges

\* C16: when the original merged ranges are pairwise non-overlapping the
\* overlap rule discards nothing: every range above insert_at survives
\* unchanged, every range at or below survives shifted, every part of a split
\* range with more than one cell survives, and the call returns.
C16_NothingDiscarded ==
    (pc \in {"inserted", "error"} /\ NoOverlap(OriginalSet)) =>
        /\ InsertReturned
        /\ \A rng \in OriginalSet :
              /\ IsAbove(rng) => rng \in ws.ranges
              /\ IsBelow(rng) => Shifted(rng) \in ws.ranges
              /\ (Straddles(rng) /\ MoreThanOneCell(PrePart(rng))) => PrePart(rng) \in ws.ranges
              /\ (Straddles(rng) /\ MoreThanOneCell(PostPart(rng))) => PostPart(rng) \in ws.ranges

\* Two disjoint ranges side by side, one split into two parts that both
\* survive, the other shifted
C16_Witness ==
    /\ InsertReturned
    /\ NoOverlap(OriginalSet)
    /\ \E a, b \in OriginalSet :
          /\ a /= b
          /\ Straddles(a)
          /\ PrePart(a) \in ws.ranges /\ PostPart(a) \in ws.ranges
          /\ IsBelow(b) /\ Shifted(b) \in ws.ranges
          /\ b[1] <= a[3]

InsertedRows == insert_at..(insert_at + rows_to_insert - 1)

RowsOf(rng) == rng[1]..rng[3]

\* C17: after _insert_rows_preserving_merges with amount > 0 no merged range
\* has a cell in the rows insert_at .. insert_at+amount-1: no range rebuilt
\* from a straddling range, or from any other, reaches into the inserted rows.
C17_InsertedRowsUnmerged ==
    pc \in {"inserted", "error"} =>
        /\ rows_to_insert > 0
        /\ \A i \in 1..Len(rebuilt) : RowsOf(rebuilt[i]) \cap InsertedRows = {}
        /\ InsertReturned => \A r \in ws.ranges : RowsOf(r) \cap InsertedRows = {}

\* Two rows inserted in the middle of a range of four rows
C17_Witness ==
    /\ InsertReturned
    /\ rows_to_insert = 2
    /\ \E rng \in OriginalSet :
          /\ rng[1] + 1 < insert_at /\ insert_at < rng[3]
          /\ PrePart(rng) \in ws.ranges
          /\ PostPart(rng) \in ws.ranges

-----------------------------------------------------------------------------
(* Claims about _ensure_analysis_blocks *)

\* The rows of the gap between the insertion point and the title row that can
\* take the place of inserted rows, one row kept as separator
ReusableRows(title_row, insertion_point) ==
    IF title_row /= 0 /\ title_row > insertion_point
    THEN Max(0, title_row - insertion_point - 1)
    ELSE 0

\* C18: when more blocks are required than exist, _ensure_analysis_blocks
\* inserts exactly max(0, (required - existing) * 11 - reusable) rows at row
\* 14 + existing * 11, reusable being max(0, titleRow - insertionPoint - 1) when
\* an items title row exists below the insertion point and 0 otherwise, so a
\* title row at or below the insertion point moves down by that many rows;
\* when required <= existing the sheet is left as it was.
C18_RowsInsertedForBlocks ==
    [][pc = "ensure_blocks" =>
          LET existing == count_analysis_blocks(ws)
              required == Len(sections)
              insertion_point == 14 + existing * 11
              title_row == ItemsTitleRow(ws)
              amount == Max(0, (required - existing) * 11
                                   - ReusableRows(title_row, insertion_point))
          IN  IF required <= existing
              THEN ws' = ws /\ UNCHANGED <<insert_at, rows_to_insert, original_ranges, rebuilt>>
              ELSE /\ insert_at' = insertion_point
                   /\ rows_to_insert' = amount
                   /\ ~Failed(ws') =>
                         /\ ItemsTitleRow(ws') =
                                IF title_row >= insertion_point THEN title_row + amount
                                ELSE title_row
                         /\ \A rng \in ws.ranges :
                               rng[1] >= insertion_point + (required - existing) * 11
                                   => <<rng[1] + amount, rng[2], rng[3] + amount, rng[4]>>
                                          \in ws'.ranges]_vars

\* A third block on a template with two blocks and three rows between the
\* insertion point and the title row: all three reused, eight rows inserted at row 36
C18_Witness ==
    /\ pc = "recopy"
    /\ Len(sections) = 3
    /\ count_analysis_blocks(template) = 2
    /\ ItemsTitleRow(template) = 40
    /\ insert_at = 36
    /\ rows_to_insert = 8
    /\ ItemsTitleRow(ws) = 48

-----------------------------------------------------------------------------
(* Claims about the raw lines of the items *)

IsMarker(line) == META_RE(line) \/ ITEM_RE(line)

\* The position of the first marker line after position p, or the position
\* after the last line
NextMarker(p) ==
    LET later == {q \in (p + 1)..Len(lines) : IsMarker(lines[q])}
    IN  IF later = {} THEN Len(lines) + 1 ELSE CHOOSE q \in later : \A r \in later : q <= r

\* The positions that follow a Goal marker line with no Item marker in between
BeforeFirstItem ==
    {q \in 1..Len(lines) :
        /\ ~IsMarker(lines[q])
        /\ \E g \in 1..(q - 1) :
              META_RE(lines[g]) /\ \A r \in (g + 1)..(q - 1) : ~ITEM_RE(lines[r])}

\* C19: the raw lines of every emitted item are the lines between its Item
\* marker line and the next Item marker or Goal marker line (or the end of the
\* input), in order, and none of them is a line that follows a Goal marker and
\* precedes the first Item marker of that goal.
C19_RawLinesBetweenMarkers ==
    ParseItemsDone =>
        \A k \in 1..Len(items) :
            \E p \in 1..Len(lines) :
                /\ ITEM_RE(lines[p])
                /\ ItemNumber(lines[p]) = items[k].item
                /\ items[k].lines = SubSeq(lines, p + 1, NextMarker(p) - 1)
                /\ (p + 1)..(NextMarker(p) - 1) \cap BeforeFirstItem = {}

-----------------------------------------------------------------------------
(* Claims about the end of narrative capture *)

\* Line i belongs to a goal and follows a 'Status:' line, an 'Itens da Meta'
\* line or an Item marker line of the same goal
CaptureEnded(i) ==
    /\ ~META_RE(lines[i])
    /\ \E g \in 1..(i - 1), s \in 1..(i - 1) :
          /\ g < s
          /\ META_RE(lines[g])
          /\ SectionStop(lines[s])
          /\ \A r \in (g + 1)..i : ~META_RE(lines[r])

\* C20: within a goal, once a 'Status:' line, an 'Itens da Meta' line or an
\* Item marker line has been read, no later line before the next Goal marker
\* adds text to a narrative field of that goal.
C20_CaptureEndsForGoal ==
    [][(pc = "sections" /\ idx <= Len(lines) /\ CaptureEnded(idx)) => current' = current]_vars

-----------------------------------------------------------------------------
(* Claims about the file checks and the exit status *)

FileAbsent == files.pdf = "absent" \/ files.xlsx = "absent"

\* parse_items has run and returned no item
NoItemsParsed == ~FileAbsent /\ files.pdf = "ok" /\ pc /= "parse_items" /\ items = <<>>

\* The two lines main() prints before it returns
Summary == << <<"Itens extraidos:", " ">> \o IntText(Len(rows)), <<"Arquivo gerado:">> >>

\* With the template absent no step after the file checks is reached, nothing
\* is extracted or parsed, and the run ends with one error message (and
\* status 1 in main())
TemplateAbsentIsFatal ==
    files.xlsx = "absent" =>
        /\ pc \in {"start", "exit", "stopped"}
        /\ lines = <<>> /\ items = <<>> /\ sections = <<>> /\ saved = <<>>
        /\ pc /= "start" =>
              /\ Len(messages) = 1
              /\ messages[1] \in {<<"PDF nao encontrado">>, <<"Planilha nao encontrada">>,
                                  <<"Planilha modelo nao encontrada no servidor.">>}
              /\ surface = "cli" => exit_code = 1
              /\ surface = "app" => pc = "stopped"

\* A step of the run has raised an exception
StepRaised == ~FileAbsent /\ (files.pdf = "corrupt" \/ Failed(ws))

\* C14 as stated: with the template absent the run ends in a fatal error
\* before any extraction or parsing step, in main() and in the app; main()
\* exits non-zero when the template or the PDF is absent or no items were
\* found, and otherwise exits zero after printing the item count and the
\* output path.
C14_ExitStatus ==
    /\ TemplateAbsentIsFatal
    /\ (surface = "cli" /\ pc = "exit") =>
          IF FileAbsent \/ NoItemsParsed
          THEN exit_code /= 0
          ELSE exit_code = 0 /\ messages = Summary

\* C14, amended: the same, with a third outcome for main(): when a step of the
\* run raises (the extraction of a PDF that cannot be read, a write into the
\* workbook that fails) the exception is not caught and main() exits non-zero
\* without printing the item count and the output path; main() exits zero,
\* after printing both and saving the workbook, in every other run.
C14_ExitStatusUnlessRaised ==
    /\ TemplateAbsentIsFatal
    /\ (surface = "cli" /\ pc = "exit") =>
          IF FileAbsent \/ NoItemsParsed \/ StepRaised
          THEN exit_code /= 0 /\ Len(messages) = 1 /\ messages[1] \notin {Summary[1], Summary[2]}
          ELSE exit_code = 0 /\ messages = Summary /\ saved /= <<>>

\* main() stopped by the absent template, the PDF present
C14_Witness ==
    /\ surface = "cli"
    /\ files = [pdf |-> "ok", xlsx |-> "absent"]
    /\ source /= <<>>
    /\ pc = "exit"
    /\ exit_code = 1
    /\ messages = << <<"Planilha nao encontrada">> >>
    /\ lines = <<>>

-----------------------------------------------------------------------------
(* Claims about the active field of extract_fields *)

\* The one item of the input has been converted
OneItemConverted == Len(rows) = 1 /\ Len(items) = 1 /\ pc /= "build_rows"

\* The lines of the input after the Goal marker and the Item marker
Buffer == SubSeq(lines, 3, Len(lines))

IsLabelLine(line) == \E p \in LabelPrefixes : StartsWith(line, p.tokens)
IsStopLine(line) == Len(line) >= 1 /\ line[1] \in STOP_PATTERNS

\* The position of the last label line or stop line before position j (0 if none)
LastRecognized(buf, j) ==
    LET before == {i \in 1..(j - 1) : IsLabelLine(buf[i]) \/ IsStopLine(buf[i])}
    IN  IF before = {} THEN 0 ELSE CHOOSE i \in before : \A q \in before : q <= i

\* The field that is active when line j is read ("" is none)
ActiveFieldAt(buf, j) ==
    LET i == LastRecognized(buf, j)
    IN  IF i = 0 \/ IsStopLine(buf[i]) THEN "" ELSE LabelOf(buf[i]).key

\* What line j adds to field k: the text after the label for a line labelled k,
\* the whole line for a line without a label read while k is active
Contribution(buf, j, k) ==
    IF IsStopLine(buf[j]) THEN <<>>
    ELSE IF IsLabelLine(buf[j])
    THEN (IF LabelOf(buf[j]).key = k /\ Strip(BodyOf(buf[j])) /= <<>>
          THEN <<Strip(BodyOf(buf[j]))>> ELSE <<>>)
    ELSE (IF ActiveFieldAt(buf, j) = k THEN <<buf[j]>> ELSE <<>>)

RECURSIVE Contributions(_, _, _)
Contributions(buf, j, k) ==
    IF j > Len(buf) THEN <<>>
    ELSE Contribution(buf, j, k) \o Contributions(buf, j + 1, k)

\* C21: in extract_fields a stop line closes the active field without opening
\* another, so the lines after it are dropped until the next label line; the
\* lines before the first label line are dropped; every other line without a
\* label goes to the field that is active when it is read and to no other
\* field.
C21_LinesGoToActiveField ==
    OneItemConverted =>
        \A k \in FieldKeys :
            fields[k] = blank_if_dash_only(JoinSpace(Contributions(Buffer, 1, k)))

\* A description of two lines, then a stop line, then a line that is dropped
C21_Witness ==
    /\ OneItemConverted
    /\ Buffer = << <<"Descricao:", " ", "b">>, <<"x">>, <<"Cod. Senasp:", " ", "1">>, <<"y", " ", "z">> >>
    /\ fields["descricao"] = <<"b", " ", "x">>
    /\ \A k \in FieldKeys \ {"descricao"} : fields[k] = <<>>

-----------------------------------------------------------------------------
(* Claims about the cut of the state-plan-target text *)

FollowingLabels == {"Periodicidade", "Fonte", "Fonte/Ano", "Valor de Referencia",
                    "Valor de Referencia/Fonte"}

\* A periodicity / source / reference-value label starts at position i of the
\* text: the word, not glued to a letter or digit before it, blanks, a colon
LabelStartsAt(text, i) ==
    /\ text[i] \in FollowingLabels
    /\ (i > 1 => text[i - 1] \notin {"a", "b"} \cup Digits)
    /\ \E c \in (i + 1)..Len(text) :
          text[c] = ":" /\ \A w \in (i + 1)..(c - 1) : text[w] \in Ws

ContainsLabel(text) == \E i \in 1..Len(text) : LabelStartsAt(text, i)

\* The text before the first label, the whole text when it holds no label
BeforeFirstLabel(text) ==
    IF ~ContainsLabel(text) THEN text
    ELSE LET first == CHOOSE i \in 1..Len(text) :
                          LabelStartsAt(text, i) /\ \A j \in 1..(i - 1) : ~LabelStartsAt(text, j)
         IN  SubSeq(text, 1, first - 1)

\* The last step of extract_meta_especifica_sections
SectionsReturn == pc = "sections" /\ idx > Len(lines)

\* The text accumulated for field k of section i when the loop has ended: the
\* sections pushed at a Goal marker hold it joined, the last one is still open
AccumulatedText(i, k) ==
    IF i <= Len(sections) THEN sections[i].text[k]
    ELSE normalize(JoinSpace(current[1].text[k]))

\* C22 as stated: the final meta_pesp of every section is the accumulated text
\* cut at the first periodicity / source / reference-value label, so it holds
\* no such label; the other narrative fields are not cut.
C22_CutAtFirstLabel ==
    [][SectionsReturn =>
          \A i \in 1..Len(sections') :
              /\ sections'[i].text["meta_pesp"] =
                     normalize(BeforeFirstLabel(AccumulatedText(i, "meta_pesp")))
              /\ ~ContainsLabel(sections'[i].text["meta_pesp"])
              /\ \A k \in SectionKeys \ {"meta_pesp"} :
                     sections'[i].text[k] = blank_if_dash_only(AccumulatedText(i, k))]_vars

\* C22, amended: the final meta_pesp is the accumulated text cut at the first
\* such label, or the empty text when what is left before the label is only
\* dashes; it holds no such label; the other narrative fields are not cut.
C22_CutAtFirstLabelOrBlank ==
    [][SectionsReturn =>
          \A i \in 1..Len(sections') :
              /\ sections'[i].text["meta_pesp"] =
                     (IF IsDashRun(normalize(BeforeFirstLabel(AccumulatedText(i, "meta_pesp"))))
                      THEN <<>>
                      ELSE normalize(BeforeFirstLabel(AccumulatedText(i, "meta_pesp"))))
              /\ ~ContainsLabel(sections'[i].text["meta_pesp"])
              /\ \A k \in SectionKeys \ {"meta_pesp"} :
                     sections'[i].text[k] = blank_if_dash_only(AccumulatedText(i, k))]_vars

\* Two goals: the target of the first is cut at 'Fonte:', the formula of the
\* second keeps its 'Fonte:'
C22_Witness ==
    /\ pc = "fill"
    /\ lines = <<Meta1, <<"Meta do PESP:", "a", " ", "Fonte", ":", "b">>,
                 Meta1, <<"Formula:", "b", " ", "Fonte", ":", "a">>>>
    /\ Len(sections) = 2
    /\ sections[1].text["meta_pesp"] = <<"a">>
    /\ sections[2].text["formula"] = <<"b", " ", "Fonte", ":", "a">>

-----------------------------------------------------------------------------
(* Claims about the shape of a formatted amount *)

\* format_currency has been applied to an input whose stripped value is not empty
FormattedNonEmpty == Len(formatted) >= 1 /\ strip_currency(currency_in) /= <<>>

HasComma(text) == \E i \in 1..Len(text) : text[i] = ","
FirstComma(text) == CHOOSE i \in 1..Len(text) : text[i] = "," /\ \A j \in 1..(i - 1) : text[j] /= ","

\* The digits of the input before and after its first comma
InputIntegerDigits ==
    Keep(IF HasComma(currency_in) THEN SubSeq(currency_in, 1, FirstComma(currency_in) - 1)
         ELSE currency_in, Digits)
InputFractionDigits ==
    IF HasComma(currency_in)
    THEN Keep(SubSeq(currency_in, FirstComma(currency_in) + 1, Len(currency_in)), Digits)
    ELSE <<>>

\* The integer part of a formatted amount: what stands between 'R$ ' and the
\* last three tokens
IntegerPartOf(out) == SubSeq(out, 4, Len(out) - 3)

\* Digits in groups of three from the right, a '.' between the groups
GroupedByThree(ip) ==
    /\ ip /= <<>>
    /\ \A p \in 1..Len(ip) :
          IF (Len(ip) - p + 1) % 4 = 0 THEN ip[p] = "." ELSE ip[p] \in Digits
    /\ ip[1] \in Digits

\* ds without its leading zeros, "0" when nothing is left
WithoutLeadingZeros(ds, ip) ==
    \E z \in 0..Len(ds) :
        /\ \A i \in 1..z : ds[i] = "0"
        /\ (z < Len(ds) => ds[z + 1] /= "0")
        /\ ip = (IF z = Len(ds) THEN <<"0">> ELSE SubSeq(ds, z + 1, Len(ds)))

\* C23: for an input whose stripped value is not empty format_currency returns
\* 'R$ ', the integer digits of the input without leading zeros (at least '0')
\* in groups of three from the right separated by '.', a ',' and exactly two
\* fraction digits: the first two fraction digits of the input, padded on the
\* right with '0', '00' when the input has no comma; nothing is rounded.
C23_FormattedShape ==
    FormattedNonEmpty =>
        LET out == formatted[1]
            ip == IntegerPartOf(out)
            fd == InputFractionDigits
        IN  /\ Len(out) >= 7
            /\ SubSeq(out, 1, 3) = <<"R", "$", " ">>
            /\ GroupedByThree(ip)
            /\ WithoutLeadingZeros(InputIntegerDigits, Keep(ip, Digits))
            /\ out[Len(out) - 2] = ","
            /\ out[Len(out) - 1] = (IF Len(fd) >= 1 THEN fd[1] ELSE "0")
            /\ out[Len(out)] = (IF Len(fd) >= 2 THEN fd[2] ELSE "0")

\* A leading zero dropped and one fraction digit padded
C23_Witness ==
    /\ FormattedNonEmpty
    /\ currency_in = <<"0", "1", ",", "5">>
    /\ formatted[1] = <<"R", "$", " ", "1", ",", "5", "0">>

-----------------------------------------------------------------------------
(* Claims about the item table of a flat template *)

\* fill_worksheet has returned
TableFilled == pc \in {"report", "done"} /\ ~is_analysis_template_sheet(template)

HeaderColumns == {header_map[k] : k \in DOMAIN header_map}

\* C24: fill_worksheet clears values only in the columns of the header map: the
\* value of every cell of a column that is not in the header map is after the
\* fill what it was before.
C24_OtherColumnsKeepValues ==
    TableFilled =>
        \A pos \in DOMAIN template.cells :
            pos[2] \notin HeaderColumns => ValueOf(ws, pos) = ValueOf(template, pos)


\* The Item marker lines that follow a Goal marker, in order: the items of an
\* input whose first marker is a Goal marker
ItemMarkerPositions == {p \in 1..Len(lines) : ITEM_RE(lines[p])}

\* C25: after fill_worksheet with the rows r_1..r_n, for every i and every
\* entry (key, column) of the header map the cell (start_row + i - 1, column)
\* holds r_i[key], or the empty text when r_i has no such key; every cell of a
\* header-map column in the rows below the last written row is empty;
\* build_rows yields one row per parsed item, in the order of the items.
C25_RowsWrittenInOrder ==
    TableFilled =>
        /\ \A i \in 1..Len(rows) : \A key \in DOMAIN header_map :
              ValueOf(ws, <<3 + i - 1, header_map[key]>>) =
                  (IF key \in DOMAIN rows[i] THEN rows[i][key] ELSE <<>>)
        /\ \A pos \in (DOMAIN ws.cells) \cup (DOMAIN template.cells) :
              (pos[1] > 3 + Len(rows) - 1 /\ pos[2] \in HeaderColumns) => ValueOf(ws, pos) = <<>>
        /\ Len(rows) = Len(items)
        /\ Len(rows) = Cardinality(ItemMarkerPositions)
        /\ \A i \in 1..Len(rows) :
              /\ "Numero do Item" \in DOMAIN header_map =>
                    ValueOf(ws, <<3 + i - 1, header_map["Numero do Item"]>>) = IntText(items[i].item)
              /\ rows[i] = BuildRow(items[i], extract_fields(items[i].lines), header_map)

\* Two items on the template with the columns of an earlier fill: the item
\* numbers in rows 3 and 4, the old value of row 5 cleared
C25_Witness ==
    /\ TableFilled
    /\ template = GapTemplate
    /\ Len(rows) = 2
    /\ ValueOf(ws, <<3, 1>>) = <<"1">>
    /\ ValueOf(ws, <<4, 1>>) = <<"2">>
    /\ ValueOf(template, <<5, 3>>) = <<"old">>
    /\ ValueOf(ws, <<5, 3>>) = <<>>


-----------------------------------------------------------------------------
(* Claims about the header of the action column *)

HeaderUpdated == pc = "header_updated"

\* The article number the header is to embed: the rule-derived number when
\* there is one, else the number captured on the first row (<<>> when none)
ResolvedArticle ==
    IF art_num_preferred /= <<>> THEN art_num_preferred
    ELSE IF rows /= <<>> THEN rows[1][ACTION_HEADER_NUM_KEY]
    ELSE <<>>

HeaderIsRewritten ==
    /\ ACTION_HEADER_KEY \in DOMAIN header_map
    /\ rows /= <<>>
    /\ ResolvedArticle \in {<<"6">>, <<"7">>, <<"8">>}

\* C26: update_action_header rewrites the header of the action column to
\* embed the article number a, the rule-derived number when one exists and
\* otherwise the number captured on the first row, and only when a is 6, 7 or
\* 8; with no resolved number, a number outside 6, 7, 8, no rows or no action
\* column the header cell, like every other cell, is left as it was.
C26_HeaderEmbedsResolvedArticle ==
    HeaderUpdated =>
        IF HeaderIsRewritten
        THEN /\ ValueOf(ws, <<2, header_map[ACTION_HEADER_KEY]>>) =
                    <<"Acao conforme Art.", " ">> \o ResolvedArticle
                        \o <<"ORD", " ", "da portaria n 685">>
             /\ \A pos \in (DOMAIN ws.cells) \cup (DOMAIN template.cells) :
                    pos /= <<2, header_map[ACTION_HEADER_KEY]>> =>
                        ValueOf(ws, pos) = ValueOf(template, pos)
        ELSE ws = template

\* The rule gives 8 and the first row captured 7: the header of column 5,
\* which named article 6, names article 8
C26_Witness ==
    /\ HeaderUpdated
    /\ art_num_preferred = <<"8">>
    /\ rows /= <<>>
    /\ rows[1][ACTION_HEADER_NUM_KEY] = <<"7">>
    /\ ValueOf(template, <<2, 5>>) = ActionHeaderText(<<"6">>)
    /\ ValueOf(ws, <<2, 5>>) = ActionHeaderText(<<"8">>)

\* A case of the other kind: the preferred number 9 with a first row that
\* captured 7 leaves the header that named article 6 as it was
C26_WitnessOutsideSet ==
    /\ HeaderUpdated
    /\ ACTION_HEADER_KEY \in DOMAIN header_map
    /\ art_num_preferred = <<"9">>
    /\ rows /= <<>>
    /\ rows[1][ACTION_HEADER_NUM_KEY] = <<"7">>
    /\ ws = template

\* A case of the other kind: a call with no rows and the preferred number 8
C26_WitnessNoRows ==
    /\ HeaderUpdated
    /\ ACTION_HEADER_KEY \in DOMAIN header_map
    /\ art_num_preferred = <<"8">>
    /\ rows = <<>>
    /\ ws = template


-----------------------------------------------------------------------------
(* Claims about the text injected into the cells of a goal block *)

BlocksInjected ==
    /\ pc \in {"items_table", "report", "done"}
    /\ is_analysis_template_sheet(template)
    /\ sections /= <<>>

\* The injected columns E, G, H and I with their token and marker phrase
InjectedColumns ==
    {[col |-> 5, token |-> "3*", marker |-> "A referencia informada foi:", key |-> ""],
     [col |-> 7, token |-> "6*", marker |-> "A Meta informada foi:", key |-> "meta_pesp"],
     [col |-> 8, token |-> "7*", marker |-> "A Meta informada foi:", key |-> "meta_pnsp"],
     [col |-> 9, token |-> "8*", marker |-> "A politica informada foi:",
      key |-> "carteira_mjsp"]}

\* The value of the goal at position i for the column
ColumnValue(d, i) ==
    IF d.col = 5 THEN analysis_data.three_valor_referencia ELSE sections[i].text[d.key]

\* The text of the cell of block 1 in the template, which every block starts from
BaseText(col) == ValueOf(template, <<ANALYSIS_BLOCK_START_ROW, col>>)
\* The text of the cell of the block of the goal at position i after the fill
ResultText(col, i) == ValueOf(ws, <<BlockStartRow(i), col>>)

HasTokenPair(text, token) == Cardinality({j \in 1..Len(text) : text[j] = token}) >= 2
HasMarker(text, marker) == \E j \in 1..Len(text) : text[j] = marker

\* C27: for each of the columns E, G, H and I of a goal block with a
\* non-empty value: if the base text holds the token pair of the column, the
\* segment between the tokens is replaced by the value; otherwise, if it
\* holds the marker phrase, the text up to the marker, the marker, the blank
\* lines and the value open the cell; otherwise the cell is the value alone.
C27_StrategyOrder ==
    BlocksInjected =>
        \A i \in 1..Len(sections) : \A d \in InjectedColumns :
            LET v == ColumnValue(d, i)
                base == BaseText(d.col)
                res == ResultText(d.col, i)
            IN  v /= <<>> =>
                    IF HasTokenPair(base, d.token)
                    THEN res = replace_placeholder_segment(base, d.token, v)
                    ELSE IF HasMarker(base, d.marker)
                    THEN StartsWith(res, Before(base, d.marker) \o <<d.marker>>
                                             \o BlankLines \o v)
                    ELSE res = v


\* The same order on the values that hold no token of their column: what is
\* left of C27 once the values that are themselves a token pair are set aside
StrategyOrderOnPlainValues ==
    BlocksInjected =>
        \A i \in 1..Len(sections) : \A d \in InjectedColumns :
            LET v == ColumnValue(d, i)
                base == BaseText(d.col)
                res == ResultText(d.col, i)
            IN  (v /= <<>> /\ ~HasMarker(v, d.token)) =>
                    IF HasTokenPair(base, d.token)
                    THEN res = replace_placeholder_segment(base, d.token, v)
                    ELSE IF HasMarker(base, d.marker)
                    THEN StartsWith(res, Before(base, d.marker) \o <<d.marker>>
                                             \o BlankLines \o v)
                    ELSE res = v


\* The text of after from the anchor phrase on, without blanks at its ends
\* (<<>> when the anchor phrase is not there)
FromAnchor(after) ==
    IF HasMarker(after, "Existe aderencia")
    THEN BlankLines \o Strip(SubSeq(after, IndexOf(after, "Existe aderencia"), Len(after)))
    ELSE <<>>

\* The cell is spliced at the marker: no token pair took the value, the base
\* text holds the marker and the value is not empty
SplicedAtMarker(d, i) ==
    /\ ColumnValue(d, i) /= <<>>
    /\ ~HasMarker(ColumnValue(d, i), d.token)
    /\ ~HasTokenPair(BaseText(d.col), d.token)
    /\ HasMarker(BaseText(d.col), d.marker)

\* C28: in marker splicing for the columns E, G, H and I the text before the
\* first marker is kept, the marker is followed by blank lines and the value,
\* and the text of the base from the later anchor phrase on follows the value
\* after blank lines.
C28_SuffixKeptInEveryColumn ==
    BlocksInjected =>
        \A i \in 1..Len(sections) : \A d \in InjectedColumns :
            SplicedAtMarker(d, i) =>
                ResultText(d.col, i) =
                    Before(BaseText(d.col), d.marker) \o <<d.marker>> \o BlankLines
                        \o ColumnValue(d, i) \o FromAnchor(After(BaseText(d.col), d.marker))

\* The same for the columns G, H and I alone, which _inject_meta_text fills
SuffixKeptInMetaColumns ==
    BlocksInjected =>
        \A i \in 1..Len(sections) : \A d \in InjectedColumns :
            (SplicedAtMarker(d, i) /\ d.col /= 5) =>
                ResultText(d.col, i) =
                    Before(BaseText(d.col), d.marker) \o <<d.marker>> \o BlankLines
                        \o ColumnValue(d, i) \o FromAnchor(After(BaseText(d.col), d.marker))

\* Column E drops what follows the marker, the anchor phrase included
ReferenceColumnDropsSuffix ==
    BlocksInjected =>
        \A i \in 1..Len(sections) :
            LET d == CHOOSE e \in InjectedColumns : e.col = 5
            IN  SplicedAtMarker(d, i) =>
                    ResultText(5, i) = Before(BaseText(5), d.marker) \o <<d.marker>>
                                           \o BlankLines \o ColumnValue(d, i)


\* t occurs in s as a run of consecutive tokens
Occurs(t, s) == \E k \in 0..(Len(s) - Len(t)) : SubSeq(s, k + 1, k + Len(t)) = t

C29_WitnessMarkers ==
    /\ BlocksInjected
    /\ HasMarker(BaseText(6), "Formula:")
    /\ sections[1].text["descricao_indicador"] = <<"d">>
    /\ sections[1].text["formula"] = <<"f">>
    /\ ResultText(6, 1) = <<"Descricao do Indicador:", "\n", "d", "\n", "\n", "Formula:",
                            "\n", "f", "\n", "\n", "O indicador", "z">>


-----------------------------------------------------------------------------
(* Claims about the material value of a row *)

\* The extracted fields of the item at position i
FieldsOf(i) == extract_fields(items[i].lines)

\* The values of row i written to the columns of the header map
WrittenValues(i) == {ValueOf(ws, <<3 + i - 1, header_map[h]>>) : h \in DOMAIN header_map}

\* C30: the material value of a row is the bare material text when the header
\* map has the description and the destination column, and otherwise the
\* non-empty parts 'Bem/Servico: X', 'Descricao: Y', 'Destinacao: Z' joined by
\* ' | '; on a template with a material column every non-empty material,
\* description and destination text of the item is in a written value of its row.
C30_MaterialCarriesEveryText ==
    TableFilled =>
        \A i \in 1..Len(rows) :
            /\ rows[i]["Material/Servico"] =
                   (IF {"Descricao", "Destinacao"} \subseteq DOMAIN header_map
                    THEN FieldsOf(i)["bem"]
                    ELSE build_material(FieldsOf(i)["bem"], FieldsOf(i)["descricao"],
                                        FieldsOf(i)["destinacao"]))
            /\ "Material/Servico" \in DOMAIN header_map =>
                   \A k \in {"bem", "descricao", "destinacao"} :
                       FieldsOf(i)[k] /= <<>> =>
                           \E v \in WrittenValues(i) : Occurs(FieldsOf(i)[k], v)

\* The texts are all written when the header map has both columns or neither
EveryTextOnBothOrNeither ==
    TableFilled =>
        \A i \in 1..Len(rows) :
            ("Material/Servico" \in DOMAIN header_map
                /\ ("Descricao" \in DOMAIN header_map <=> "Destinacao" \in DOMAIN header_map)) =>
                   \A k \in {"bem", "descricao", "destinacao"} :
                       FieldsOf(i)[k] /= <<>> =>
                           \E v \in WrittenValues(i) : Occurs(FieldsOf(i)[k], v)


-----------------------------------------------------------------------------
(* Claims about the status of an item *)

RowsBuilt == pc \in {"items_table", "analysis_data"}

\* The position of the first Item marker line after position p, or the
\* position after the last line
NextItemMarker(p) ==
    LET later == {q \in (p + 1)..Len(lines) : ITEM_RE(lines[q])}
    IN  IF later = {} THEN Len(lines) + 1 ELSE CHOOSE q \in later : \A r \in later : q <= r

\* The Item marker lines that parse_items emits an item for: a Goal marker
\* line comes before the next Item marker line
EmittingMarkers ==
    {p \in 1..Len(lines) :
        /\ ITEM_RE(lines[p]) /\ ~META_RE(lines[p])
        /\ \E g \in 1..(NextItemMarker(p) - 1) : META_RE(lines[g])}

\* The k-th position of a set of positions
KthOf(S, k) == CHOOSE p \in S : Cardinality({q \in S : q <= p}) = k

\* The status word as it reads with a capital first letter and the other
\* letters small
CapitalizedWord(w) ==
    CASE w \in {"Planejado", "pLANEJADO"} -> "Planejado"
      [] w \in {"Aprovado", "APROVADO"} -> "Aprovado"
      [] w \in {"Cancelado", "cancelado"} -> "Cancelado"

\* C31: the status of the row of an item is the status word of its Item
\* marker line with a capital first letter, and 'Planejado' when the marker
\* line carries no status word; no row has an empty status.
C31_StatusOfEveryRow ==
    RowsBuilt =>
        /\ Len(rows) = Cardinality(EmittingMarkers)
        /\ \A k \in 1..Len(rows) :
              LET marker == lines[KthOf(EmittingMarkers, k)]
              IN  /\ rows[k]["Status do Item"] =
                         (IF ItemStatus(marker) = "" THEN <<"Planejado">>
                          ELSE <<CapitalizedWord(ItemStatus(marker))>>)
                  /\ rows[k]["Status do Item"] /= <<>>
                  /\ rows[k]["Numero do Item"] = IntText(ItemNumber(marker))

\* An item approved in capitals, one cancelled in small letters and one
\* without a status word
C31_Witness ==
    /\ RowsBuilt
    /\ lines = <<Meta1, <<"ITEM", "2", " ", "APROVADO">>, <<"Item", "3", "cancelado">>,
                 <<"Item", "6", " ", "x">>>>
    /\ Len(rows) = 3
    /\ rows[1]["Status do Item"] = <<"Aprovado">>
    /\ rows[2]["Status do Item"] = <<"Cancelado">>
    /\ rows[3]["Status do Item"] = <<"Planejado">>


-----------------------------------------------------------------------------
(* Claims about the title row of the item table under the goal blocks *)

\* _ensure_analysis_blocks has returned
BlocksEnsured ==
    /\ pc \in {"recopy", "inject", "items_table", "report", "done"}
    /\ sections /= <<>>

\* The row where the blocks of the template end and new ones are inserted
TemplateInsertAt == 14 + count_analysis_blocks(template) * 11
\* The last row of the last block of the sheet
LastBlockRow == 14 + Max(Len(sections), count_analysis_blocks(template)) * 11 - 1

\* C32: after _ensure_analysis_blocks, a title row of the item table that was
\* at or below the insertion point lies, where it is now, strictly below the
\* last row of the last block, and the title and the header row under it read
\* as in the template until the item table is filled; a title row that was
\* strictly below the insertion point has at least one row between it and the
\* last block row.
C32_TitleRowBelowBlocks ==
    (BlocksEnsured /\ ItemsTitleRow(template) /= 0
        /\ ItemsTitleRow(template) >= TemplateInsertAt) =>
        LET before == ItemsTitleRow(template)
            now == ItemsTitleRow(ws)
        IN  /\ now /= 0
            /\ now > LastBlockRow
            /\ now >= before
            /\ before > TemplateInsertAt => now - LastBlockRow - 1 >= 1
            /\ pc \in {"recopy", "inject", "items_table"} =>
                  \A c \in 1..MaxColumnOf(template) :
                      /\ ValueOf(ws, <<now, c>>) = ValueOf(template, <<before, c>>)
                      /\ ValueOf(ws, <<now + 1, c>>) = ValueOf(template, <<before + 1, c>>)

\* A title row on the insertion point of a template with one block, and two
\* goals: eleven rows inserted, the title row right under the second block
C32_Witness ==
    /\ BlocksEnsured
    /\ pc = "inject"
    /\ ItemsTitleRow(template) = 25
    /\ count_analysis_blocks(template) = 1
    /\ Len(sections) = 2
    /\ rows_to_insert = 11
    /\ ItemsTitleRow(ws) = 36

\* A title row five rows below the insertion point, and three goals: four
\* rows reused, eighteen inserted, one row left above the title row
C32_WitnessSeparator ==
    /\ BlocksEnsured
    /\ ItemsTitleRow(template) = 30
    /\ count_analysis_blocks(template) = 1
    /\ Len(sections) = 3
    /\ rows_to_insert = 18
    /\ ItemsTitleRow(ws) = 48
    /\ LastBlockRow = 46


-----------------------------------------------------------------------------
(* Claims about the independence of the goal blocks *)

\* The last loop of fill_analysis_template has been reached
InjectionReached ==
    /\ pc \in {"inject", "items_table", "report", "done"}
    /\ is_analysis_template_sheet(template)
    /\ sections /= <<>>

\* The goal at position k has had its texts injected
IsInjected(k) == pc /= "inject" \/ k < idx

\* The text of the cell at row offset o and column c of block k that block 1
\* of the template and the values of goal k alone give
ExpectedCell(k, o, c) ==
    IF o = 0 /\ c = 1
    THEN LET label == two_meta_texto(k, sections[k].text["meta_texto"])
         IN  InjectOr(ValueOf(template, <<ANALYSIS_BLOCK_START_ROW, 1>>), "2*", label, label)
    ELSE ValueOf(InjectBlockCells(template, 1, sections[k],
                                  analysis_data.three_valor_referencia),
                 <<ANALYSIS_BLOCK_START_ROW + o, c>>)

\* C33: when the first goal text is injected every block is a copy of block 1
\* of the template, and a block stays so until its own goal is injected; from
\* then on the cells of block k hold what block 1 of the template and the
\* values of goal k (with the reference value of the document) give, whatever
\* the other goals hold.
C33_BlocksIndependent ==
    InjectionReached =>
        \A k \in 1..Len(sections) :
            \A o \in 0..(ANALYSIS_BLOCK_HEIGHT - 1) :
                \A c \in ANALYSIS_BLOCK_START_COL..ANALYSIS_BLOCK_END_COL :
                    ValueOf(ws, <<BlockStartRow(k) + o, c>>) =
                        IF IsInjected(k) THEN ExpectedCell(k, o, c)
                        ELSE ValueOf(template, <<ANALYSIS_BLOCK_START_ROW + o, c>>)

\* Two goals on a template whose cells hold plain text: the formula of goal 1
\* is in block 1 only, the target of goal 2 in block 2 only
C33_Witness ==
    /\ InjectionReached
    /\ pc = "items_table"
    /\ Len(sections) = 2
    /\ sections[1].text["formula"] = <<"f">>
    /\ sections[2].text["meta_pnsp"] = <<"n">>
    /\ BaseText(6) = <<"x">>
    /\ BaseText(8) = <<"x">>
    /\ ResultText(6, 1) = <<"Formula:", " ", "f">>
    /\ ResultText(6, 2) = <<"x">>
    /\ ResultText(8, 1) = <<"x">>
    /\ ResultText(8, 2) = <<"n">>


-----------------------------------------------------------------------------
(* Claims about the blocks of the template beyond the goals of the document *)

\* fill_analysis_template has returned
FillReturned ==
    /\ pc \in {"items_table", "report", "done"}
    /\ is_analysis_template_sheet(template)

\* The cells of the blocks b of the template with first <= b <= last
BlocksCells(first, last) == UNION {BlockCells(BlockStartRow(b)) : b \in first..last}

\* The merged ranges of w that start at or below the first row of block b
RangesFrom(w, b) == {rng \in w.ranges : rng[1] >= BlockStartRow(b)}

\* C34: when the template has more blocks than the document has goals,
\* fill_analysis_template inserts no rows and leaves every cell value and
\* every merged range of the blocks beyond the last goal as they were; with
\* no goal at all no cell of a block and no merged range is changed.
C34_SpareBlocksUntouched ==
    (FillReturned /\ count_analysis_blocks(template) > Len(sections)) =>
        LET existing == count_analysis_blocks(template)
            goals == Len(sections)
        IN  /\ rows_to_insert = 0
            /\ ItemsTitleRow(ws) = ItemsTitleRow(template)
            /\ count_analysis_blocks(ws) = existing
            /\ \A pos \in BlocksCells(goals + 1, existing) :
                  ValueOf(ws, pos) = ValueOf(template, pos)
            /\ RangesFrom(ws, goals + 1) = RangesFrom(template, goals + 1)
            /\ goals = 0 =>
                  /\ ws.ranges = template.ranges
                  /\ \A pos \in BlocksCells(1, existing) :
                        ValueOf(ws, pos) = ValueOf(template, pos)

\* Two goals on a template of three blocks: block 2 filled, the texts and the
\* merged range of block 3 as in the template
C34_Witness ==
    /\ FillReturned
    /\ count_analysis_blocks(template) = 3
    /\ Len(sections) = 2
    /\ ValueOf(ws, <<BlockStartRow(2), 5>>) /= ValueOf(template, <<BlockStartRow(2), 5>>)
    /\ ValueOf(ws, <<BlockStartRow(3), 5>>) = <<"kept", " ", "3">>
    /\ ValueOf(ws, <<BlockStartRow(3), 7>>) = <<"6*", "y", "6*">>
    /\ <<BlockStartRow(3), 2, BlockStartRow(3), 4>> \in ws.ranges

\* No goal on a template of two blocks: the blocks as in the template
C34_WitnessNoGoal ==
    /\ FillReturned
    /\ sections = <<>>
    /\ count_analysis_blocks(template) = 2
    /\ ValueOf(ws, <<BlockStartRow(1), 5>>) = <<"3*", "x", "3*">>
    /\ ws.ranges = template.ranges


-----------------------------------------------------------------------------
(* Claims about the result the app keeps in the session *)

\* The run of the app has ended with an exception shown
ExceptionShown ==
    /\ surface = "app"
    /\ pc = "stopped"
    /\ messages /= <<>>
    /\ messages[Len(messages)] = <<"exception">>

\* C35: in the app, no step of a Processar action changes the stored result
\* except the last step of a run that produced a workbook and the step that
\* finds no items; the step that raises and the step that shows the exception
\* leave the result as it was, so after an exception the result is the one
\* stored before the action; a run on a flat template that finds no items
\* stores None.
C35_ResultKeptOnException ==
    [][surface = "app" =>
          /\ result' /= result =>
                \/ pc = "report" /\ pc' = "done"
                \/ pc = "no_items" /\ pc' = "stopped"
          /\ (pc' = "error" \/ pc = "error") => result' = result
          /\ pc \in {"done", "stopped"} => result' = result
          /\ pc = "no_items" =>
                /\ ~is_analysis_template_sheet(template)
                /\ items = <<>>
                /\ result' = ""]_vars

\* The workbook of an earlier run on a flat template is still the stored
\* result after a run on the analysis template has raised in a worksheet step
C35_Witness ==
    /\ ExceptionShown
    /\ is_analysis_template_sheet(template)
    /\ Failed(ws)
    /\ result = "items"

\* The PDF cannot be read: the earlier result is kept as well
C35_WitnessCorruptPdf ==
    /\ ExceptionShown
    /\ files.pdf = "corrupt"
    /\ result = "items"

\* A run on a flat template that finds no items, with an earlier result in
\* the session, ends with no result
C35_WitnessNoItems ==
    /\ surface = "app"
    /\ pc = "stopped"
    /\ ~is_analysis_template_sheet(template)
    /\ FilesPresent
    /\ items = <<>>
    /\ result = ""
    /\ messages = << <<"Nenhum item encontrado no PDF.">> >>

====
